---- MODULE Spec2Model ----
(***************************************************************************)
(* State-machine model of SilkLabel (src/main.py): the annotation session  *)
(* (DetailDialog + ImageLabel), the application document (SilkLabelApp)    *)
(* and the pure label resolver.                                            *)
(*                                                                         *)
(* Conventions                                                             *)
(*  - A Python list of regions is a sequence; Python index i is i+1 here.  *)
(*  - Floats (zoom_factor, scale_factor) are integers in thousandths.      *)
(*  - A candidate {label, confidence} of label_confidence is modelled by   *)
(*    its label: no code path reads a candidate's confidence except to     *)
(*    display it.                                                          *)
(*  - The field "id" of a region stands for the identity of the Python     *)
(*    dict object; the code never reads it.                                *)
(*  - Qt behaviour the handlers rely on is stated where it is used.        *)
(***************************************************************************)
EXTENDS Integers, Sequences, FiniteSets, TLC

(***************************************************************************)
(* Bounds of the model.                                                    *)
(***************************************************************************)
NumImages == 2      \* images (board buttons) of a document
MaxRegions == 2     \* regions per image: add-region is capped here
MaxDialogs == 2     \* DetailDialog windows alive at once
MaxLoads == 2       \* successful loads of a document
MaxPending == 2     \* QTimer.singleShot callbacks pending at once
MaxSteps == 5       \* user events and timer callbacks of one run
MaxLabels == 3      \* candidates of a region given to the label resolver

Images == 1..NumImages
Slots == 1..MaxDialogs
Gens == 1..MaxLoads

(***************************************************************************)
(* Inputs: the class catalog shown in the class combo box, the sizes of    *)
(* the image and of the scroll viewport, the points clicked and the        *)
(* rectangles dragged.                                                     *)
(***************************************************************************)
Catalog == <<1, 10, 11>>
CatalogIds == {Catalog[k] : k \in 1..Len(Catalog)}
Env == [img_w |-> 300, img_h |-> 200, view_w |-> 100, view_h |-> 100]
Points == {<<170, 130>>, <<210, 170>>, <<0, 0>>}
Drags == {[x |-> 40, y |-> 40, width |-> 40, height |-> 30],
          [x |-> 40, y |-> 40, width |-> 10, height |-> 10],
          [x |-> 40, y |-> 40, width |-> 9, height |-> 30],
          [x |-> 40, y |-> 40, width |-> 40, height |-> 9]}
WheelPoints == {<<10, 10>>}
\* the moves of the pointer during a left-button drag
Pans == {<<0 - 60, 0 - 20>>, <<30, 0>>}

Max2(a, b) == IF a >= b THEN a ELSE b
Min2(a, b) == IF a <= b THEN a ELSE b

(***************************************************************************)
(* Regions of the documents the model starts from.                         *)
(***************************************************************************)
RegionA == [id |-> 1, x |-> 100, y |-> 60, width |-> 80, height |-> 80,
            label_confidence |-> <<10, 1>>, final_label_index |-> 0,
            modified_status |-> 0, yolo_confidence |-> 900]
RegionB == [id |-> 2, x |-> 160, y |-> 120, width |-> 60, height |-> 60,
            label_confidence |-> <<1>>, final_label_index |-> 3,
            modified_status |-> 0, yolo_confidence |-> 800]
RegionC == [id |-> 1, x |-> 10, y |-> 10, width |-> 30, height |-> 30,
            label_confidence |-> <<>>, final_label_index |-> 0,
            modified_status |-> 0, yolo_confidence |-> 700]

\* One pic_info of all_pic_info: has = it carries the key 'regions'.
NoRegionsKey == [has |-> FALSE, regs |-> <<>>]
PicInfo(regs) == [has |-> TRUE, regs |-> regs]

InitDocs ==
    {[i \in Images |-> IF i = 1 THEN PicInfo(<<RegionA, RegionB>>) ELSE p] :
        p \in {NoRegionsKey, PicInfo(<<RegionC>>)}}

EmptyDoc == [i \in Images |-> NoRegionsKey]
\* A file whose content is not a JSON document (a write that failed midway).
CorruptFile == [ok |-> FALSE, doc |-> EmptyDoc]

VARIABLES
    file,           \* content of the JSON file at selected_file_path
    path_set,       \* SilkLabelApp.selected_file_path is not None
    json_gen,       \* which loaded document SilkLabelApp.json_data is (0: None)
    btn_gen,        \* which document the board's ImageButtons belong to (0: no buttons)
    loads,          \* documents loaded so far
    breg,           \* breg[g][i]: ImageButton.regions of image i of document g
    linked,         \* linked[g][i]: that list is pic_info['regions'] of json_data g
    dlg,            \* dlg[s]: the DetailDialog in window slot s, with its ImageLabel
    detail_dialog,  \* SilkLabelApp.detail_dialog (0: None)
    timers,         \* pending QTimer.singleShot callbacks, oldest first
    crashed,        \* an exception left a slot: PyQt6 aborts the process
    steps,          \* events handled so far
    call,           \* the call of a pure function under study, with its result
    last            \* the handler that ran last and what it showed the user

vars == <<file, path_set, json_gen, btn_gen, loads, breg, linked, dlg,
          detail_dialog, timers, crashed, steps, call, last>>

ClosedDlg ==
    [open |-> FALSE, g |-> 0, img |-> 0, current_region_index |-> -1,
     regions_modified |-> FALSE, modify_spin |-> 0, class_combo |-> Catalog[1],
     add_defect_mode |-> FALSE, selected_region_index |-> -1, detached |-> FALSE,
     list_count |-> 0, zoom_factor |-> 1000, scale_factor |-> 1000,
     h_scroll |-> 0, v_scroll |-> 0,
     prev_enabled |-> FALSE, next_enabled |-> FALSE,
     confirm_enabled |-> FALSE, delete_enabled |-> FALSE,
     regions_visible |-> TRUE]

EmptyGen == [i \in Images |-> <<>>]
UnlinkedGen == [i \in Images |-> FALSE]

\* op: the handler; d: its dialog; arg: its argument; save, csave: how the
\* save_changes of the save button and of the close event ended; ans: the
\* answer to the close prompt; flag: regions_modified of the dialog object
\* when its close event returned; msgs: the boxes shown; drawn: the handler
\* had ImageLabel.update_display draw the pixmap again.
NoOp == [op |-> "init", d |-> 0, arg |-> 0, save |-> "none", csave |-> "none",
         ans |-> "none", flag |-> FALSE, msgs |-> {}, drawn |-> FALSE]
NoCall == [fn |-> "none"]
Did(op, d, arg, msgs) == [NoOp EXCEPT !.op = op, !.d = d, !.arg = arg, !.msgs = msgs]

InitApp ==
    /\ file \in {[ok |-> TRUE, doc |-> doc] : doc \in InitDocs}
    /\ path_set = FALSE
    /\ json_gen = 0
    /\ btn_gen = 0
    /\ loads = 0
    /\ breg = [g \in Gens |-> EmptyGen]
    /\ linked = [g \in Gens |-> UnlinkedGen]
    /\ dlg = [s \in Slots |-> ClosedDlg]
    /\ detail_dialog = 0
    /\ timers = <<>>
    /\ crashed = FALSE
    /\ steps = 0
    /\ last = NoOp

Init == InitApp /\ call = NoCall


\* get_region_class_id without the fall-back to the first candidate
get_region_class_id_no_fallback(region) ==
    IF 0 <= region.final_label_index
       /\ region.final_label_index < Len(region.label_confidence)
    THEN region.label_confidence[region.final_label_index + 1]
    ELSE 11

(***************************************************************************)
(* The label resolver, DetailDialog.get_region_class_id.  The region's     *)
(* label_confidence holds labels; final_label_index may be any integer.    *)
(***************************************************************************)
NonDefectId == 11

get_region_class_id(region) ==
    LET final_label_index == region.final_label_index
        label_confidence == region.label_confidence
    IN  IF 0 <= final_label_index /\ final_label_index < Len(label_confidence)
        THEN label_confidence[final_label_index + 1]
        ELSE IF Len(label_confidence) > 0
             THEN label_confidence[1]
             ELSE NonDefectId

\* the overlay's resolver answering with the first candidate whatever the index
ImageLabel_get_region_class_id_first_only(region) ==
    IF Len(region.label_confidence) > 0 THEN region.label_confidence[1] ELSE 11

\* ImageLabel.get_region_class_id: the copy the image overlay draws with
ImageLabel_get_region_class_id(region) ==
    LET final_label_index == region.final_label_index
        label_confidence == region.label_confidence
    IN  IF 0 <= final_label_index /\ final_label_index < Len(label_confidence)
        THEN label_confidence[final_label_index + 1]
        ELSE IF Len(label_confidence) > 0
             THEN label_confidence[1]
             ELSE NonDefectId

\* ImageButton.get_region_class_id: the copy the board button counts with
ImageButton_get_region_class_id(region) ==
    LET final_label_index == region.final_label_index
        label_confidence == region.label_confidence
    IN  IF 0 <= final_label_index /\ final_label_index < Len(label_confidence)
        THEN label_confidence[final_label_index + 1]
        ELSE IF Len(label_confidence) > 0
             THEN label_confidence[1]
             ELSE NonDefectId

(***************************************************************************)
(* The lists a dialog works on.  DetailDialog reads self.button.regions;   *)
(* its ImageLabel holds "regions or []": the same list object when it was  *)
(* non-empty at set_image_and_regions, a private empty list otherwise.     *)
(***************************************************************************)
ButtonRegions(D) == breg[D.g][D.img]
LabelRegions(D, regs) == IF D.detached THEN <<>> ELSE regs

InRange(idx, regs) == 0 <= idx /\ idx < Len(regs)

\* int(v * scale_factor), scale_factor in thousandths, v >= 0
Scaled(v, scale) == (v * scale) \div 1000
\* int(v / scale_factor)
Unscaled(v, scale) == (v * 1000) \div scale

(***************************************************************************)
(* The handlers of DetailDialog and ImageLabel work on a context           *)
(*   C = [D: the dialog, regs: button.regions, t: pending timers,          *)
(*        msgs: message boxes shown, drawn: the pixmap was drawn again]    *)
(* and return the context after the call.                                  *)
(***************************************************************************)
Ctx(D, regs, t) == [D |-> D, regs |-> regs, t |-> t, msgs |-> {}, drawn |-> FALSE]

\* The size of the label is the size of the pixmap it drew last.
LabelW(D) == Scaled(Env.img_w, D.scale_factor)
LabelH(D) == Scaled(Env.img_h, D.scale_factor)

\* QScrollBar.setValue on the scroll area's bars: the value is bounded to
\* the range 0 .. label size less viewport size.
SetScroll(D, h, v) ==
    [D EXCEPT !.h_scroll = Max2(0, Min2(h, Max2(0, LabelW(D) - Env.view_w))),
              !.v_scroll = Max2(0, Min2(v, Max2(0, LabelH(D) - Env.view_h)))]

\* ImageLabel.update_display: unless the scaled size is empty, the drawing
\* scale follows the zoom factor and the label is resized, which bounds the
\* scroll bars to their new range.
update_display(C) ==
    LET new_width == Scaled(Env.img_w, C.D.zoom_factor)
        new_height == Scaled(Env.img_h, C.D.zoom_factor)
    IN  IF new_width <= 0 \/ new_height <= 0
        THEN C
        ELSE LET D1 == [C.D EXCEPT !.scale_factor = C.D.zoom_factor]
             IN  [C EXCEPT !.D = SetScroll(D1, D1.h_scroll, D1.v_scroll),
                           !.drawn = TRUE]

\* ImageLabel.set_image_and_regions
set_image_and_regions(C) ==
    update_display([C EXCEPT !.D.detached = (C.regs = <<>>)])

\* DetailDialog.update_navigation_buttons
update_navigation_buttons(C) ==
    LET total_regions == Len(C.regs)
        current_index == C.D.current_region_index
    IN  [C EXCEPT !.D.prev_enabled = current_index > 0,
                  !.D.next_enabled = current_index < total_regions - 1 /\ total_regions > 0,
                  !.D.confirm_enabled = current_index >= 0,
                  !.D.delete_enabled = current_index >= 0]

\* DetailDialog.update_region_list: the list widget gets one item per region.
update_region_list(C) ==
    update_navigation_buttons([C EXCEPT !.D.list_count = Len(C.regs)])

\* load_region_data setting the controls without the "updating" flags: the
\* slots of the combo and the spin box run as for a change by the user
load_region_data_unguarded(C, region) ==
    LET class_id == get_region_class_id(region)
        idx == C.D.current_region_index
        written == IF /\ InRange(idx, C.regs)
                      /\ InRange(region.final_label_index, region.label_confidence)
                      /\ region.modified_status # 2
                   THEN [C EXCEPT !.regs[idx + 1].modified_status = 1]
                   ELSE C
    IN  [written EXCEPT
            !.D.class_combo = IF class_id \in CatalogIds THEN class_id ELSE @,
            !.D.modify_spin = Max2(0, Min2(2, region.modified_status)),
            !.D.regions_modified = TRUE]

\* DetailDialog.load_region_data: both setters run under their "updating"
\* flag, so on_class_changed and on_modify_changed return at once.
load_region_data(C, region) ==
    LET class_id == get_region_class_id(region)
    IN  [C EXCEPT !.D.class_combo = IF class_id \in CatalogIds THEN class_id ELSE @,
                  !.D.modify_spin = Max2(0, Min2(2, region.modified_status))]

\* ImageLabel.set_selected_region
set_selected_region(C, region_index) ==
    update_display([C EXCEPT !.D.selected_region_index = region_index])

\* on_region_clicked marking the region it selects as confirmed
on_region_clicked_confirms(C, region_index) ==
    LET C1 == [C EXCEPT !.D.current_region_index = region_index]
    IN  IF InRange(region_index, C1.regs)
        THEN [C1 EXCEPT !.regs[region_index + 1].modified_status = 1]
        ELSE C1

\* DetailDialog.on_region_clicked
on_region_clicked(C, region_index) ==
    LET C1 == [C EXCEPT !.D.current_region_index = region_index]
    IN  IF InRange(region_index, C1.regs)
        THEN update_navigation_buttons(
                 set_selected_region(
                     [load_region_data(C1, C1.regs[region_index + 1])
                         EXCEPT !.D.delete_enabled = TRUE],
                     region_index))
        ELSE C1

\* DetailDialog.clear_edit_controls: the combo and the spin box signal their
\* change, and both slots return because current_region_index is -1 by then.
clear_edit_controls(C) ==
    [C EXCEPT !.D.class_combo = Catalog[1], !.D.modify_spin = 0]

\* on_region_unselected leaving the navigation buttons as they were
on_region_unselected_keeps_buttons(C) ==
    clear_edit_controls(
        set_selected_region([C EXCEPT !.D.current_region_index = -1,
                                      !.D.delete_enabled = FALSE], -1))

\* DetailDialog.on_region_unselected
on_region_unselected(C) ==
    update_navigation_buttons(clear_edit_controls(
        set_selected_region([C EXCEPT !.D.current_region_index = -1,
                                      !.D.delete_enabled = FALSE], -1)))

\* A pending QTimer.singleShot(100, lambda: self._scroll_to_region_center(i)).
\* d is the slot of the dialog whose ImageLabel scheduled it; once that dialog
\* has closed d is 0 and g, img, detached say which list the label still holds.
Timer(d, idx) == [d |-> d, idx |-> idx, g |-> 0, img |-> 0, detached |-> FALSE]

\* ImageLabel.focus_on_region, called by the dialog in slot d
focus_on_region(C, d, region_index) ==
    IF InRange(region_index, LabelRegions(C.D, C.regs))
    THEN LET C1 == update_display([C EXCEPT !.D.zoom_factor = 1000,
                                            !.D.selected_region_index = region_index])
         IN  [C1 EXCEPT !.t = Append(C1.t, Timer(d, region_index))]
    ELSE C

\* DetailDialog.go_to_previous_region
go_to_previous_region(C, d) ==
    IF C.D.current_region_index > 0
    THEN LET new_index == C.D.current_region_index - 1
         IN  focus_on_region(on_region_clicked(C, new_index), d, new_index)
    ELSE C

\* DetailDialog.go_to_next_region
go_to_next_region(C, d) ==
    IF C.D.current_region_index < Len(C.regs) - 1
    THEN LET new_index == C.D.current_region_index + 1
         IN  focus_on_region(on_region_clicked(C, new_index), d, new_index)
    ELSE C

(***************************************************************************)
(* Zoom.  zoom_factor is a float; the model keeps it in thousandths and    *)
(* rounds each product to the nearest thousandth.                          *)
(***************************************************************************)
MinZoom == 100      \* 0.1
MaxZoom == 5000     \* 5.0

\* zoom_factor * num/den
Times(zoom, num, den) == (zoom * num + den \div 2) \div den
\* max(0.1, min(5.0, zoom_factor))
Clamp(zoom) == Max2(MinZoom, Min2(MaxZoom, zoom))
\* int(n / q) of Python, q > 0: the quotient is rounded towards zero
IntDiv(n, q) == IF n >= 0 THEN n \div q ELSE 0 - ((0 - n) \div q)

\* _zoom_with_center without the clamp of the zoom factor
_zoom_with_center_unclamped(C, num, den) ==
    LET D == C.D
        old_w == LabelW(D)
        old_h == LabelH(D)
        sized == old_w > 0 /\ old_h > 0
        C1 == update_display([C EXCEPT !.D.zoom_factor = Times(D.zoom_factor, num, den)])
        new_w == LabelW(C1.D)
        new_h == LabelH(C1.D)
        new_h_value ==
            IF sized
            THEN IntDiv((Env.view_w + 2 * D.h_scroll) * new_w - Env.view_w * old_w, 2 * old_w)
            ELSE IntDiv(new_w - Env.view_w, 2)
        new_v_value ==
            IF sized
            THEN IntDiv((Env.view_h + 2 * D.v_scroll) * new_h - Env.view_h * old_h, 2 * old_h)
            ELSE IntDiv(new_h - Env.view_h, 2)
    IN  [C1 EXCEPT !.D = SetScroll(C1.D, new_h_value, new_v_value)]

\* DetailDialog._zoom_with_center(num/den): the centre of the viewport
\* (view/2 + scroll, a fraction of the old size) stays at the centre.
_zoom_with_center(C, num, den) ==
    LET D == C.D
        old_w == LabelW(D)
        old_h == LabelH(D)
        sized == old_w > 0 /\ old_h > 0
        C1 == update_display(
                  [C EXCEPT !.D.zoom_factor = Clamp(Times(D.zoom_factor, num, den))])
        new_w == LabelW(C1.D)
        new_h == LabelH(C1.D)
        new_h_value ==
            IF sized
            THEN IntDiv((Env.view_w + 2 * D.h_scroll) * new_w - Env.view_w * old_w, 2 * old_w)
            ELSE IntDiv(new_w - Env.view_w, 2)
        new_v_value ==
            IF sized
            THEN IntDiv((Env.view_h + 2 * D.v_scroll) * new_h - Env.view_h * old_h, 2 * old_h)
            ELSE IntDiv(new_h - Env.view_h, 2)
    IN  [C1 EXCEPT !.D = SetScroll(C1.D, new_h_value, new_v_value)]

\* DetailDialog.zoom_in, zoom_out: the buttons, and the keys + = - that
\* ImageLabel.keyPressEvent hands to its parent_dialog
zoom_in(C) == _zoom_with_center(C, 12, 10)
zoom_out(C) == _zoom_with_center(C, 8, 10)

\* DetailDialog.toggle_regions_visibility: the flag of the dialog is copied
\* to the label, which draws the pixmap again (draw_regions returns the
\* bare pixmap while the flag is off).
toggle_regions_visibility(C) ==
    update_display([C EXCEPT !.D.regions_visible = ~C.D.regions_visible])

\* ImageLabel.click_threshold: a left-button move of a greater Manhattan
\* length is a pan, a shorter one leaves the release a click.
click_threshold == 5
manhattanLength(delta) ==
    (IF delta[1] < 0 THEN 0 - delta[1] ELSE delta[1])
    + (IF delta[2] < 0 THEN 0 - delta[2] ELSE delta[2])

\* ImageLabel.mouseMoveEvent with the left button held, the pointer delta
\* away from where it was pressed: the scroll bars move the other way.
mouseMoveEvent(C, delta) ==
    IF manhattanLength(delta) > click_threshold
    THEN [C EXCEPT !.D = SetScroll(C.D, C.D.h_scroll - delta[1], C.D.v_scroll - delta[2])]
    ELSE C

\* abs(zoom_factor - 1.0) < 0.01 on doubles: the zoom factor 0.99 the
\* program reaches is the double 1.1 * 0.9 = 0.9900000000000001, which
\* passes the test; 1.01 would not.
NearOne(zoom) == zoom - 1000 < 10 /\ 1000 - zoom <= 10

\* The double below 1.0, 0.9999999999999999, as the thousandths show it:
\* int(v * 0.9999999999999999) = v - 1 for every size and coordinate v >= 1
\* of the model.
BelowOne == 999

\* DetailDialog.zoom_reset (button or key 0): the multiplier
\* 1.0 / zoom_factor is a rounded double, and the product
\* zoom_factor * (1.0 / zoom_factor) is 1.0 (exact) or the double below it
\* (1.44 * (1.0 / 1.44) = 0.9999999999999999).
zoom_reset(C, exact) ==
    IF NearOne(C.D.zoom_factor)
    THEN C
    ELSE _zoom_with_center(C, IF exact THEN 1000 ELSE BelowOne, C.D.zoom_factor)

\* wheelEvent leaving the scroll bars where they were
wheelEvent_keeps_scroll(C, up, p) ==
    LET zoom == Clamp(Times(C.D.zoom_factor, IF up THEN 11 ELSE 9, 10))
        C0 == [C EXCEPT !.D.zoom_factor = zoom]
    IN  IF zoom = C.D.zoom_factor THEN C0 ELSE update_display(C0)

\* ImageLabel.wheelEvent at point p of the label: one notch up or down; the
\* point under the mouse stays under the mouse.
wheelEvent(C, up, p) ==
    LET D == C.D
        old_w == LabelW(D)
        old_h == LabelH(D)
        sized == old_w > 0 /\ old_h > 0
        zoom == Clamp(Times(D.zoom_factor, IF up THEN 11 ELSE 9, 10))
        C0 == [C EXCEPT !.D.zoom_factor = zoom]
    IN  IF zoom = D.zoom_factor
        THEN C0
        ELSE LET C1 == update_display(C0)
                 new_w == LabelW(C1.D)
                 new_h == LabelH(C1.D)
                 new_h_value ==
                     IF sized
                     THEN IntDiv(D.h_scroll * old_w + p[1] * new_w - p[1] * old_w, old_w)
                     ELSE IntDiv(2 * D.h_scroll + new_w - 2 * p[1], 2)
                 new_v_value ==
                     IF sized
                     THEN IntDiv(D.v_scroll * old_h + p[2] * new_h - p[2] * old_h, old_h)
                     ELSE IntDiv(2 * D.v_scroll + new_h - 2 * p[2], 2)
             IN  [C1 EXCEPT !.D = SetScroll(C1.D, new_h_value, new_v_value)]


(***************************************************************************)
(* Edits of the region list.                                               *)
(***************************************************************************)
SetRegion(C, idx, region) == [C EXCEPT !.regs[idx + 1] = region]
Dirty(C) == [C EXCEPT !.D.regions_modified = TRUE]
Show(C, m) == [C EXCEPT !.msgs = @ \cup {m}]

\* on_class_changed without its test "modified_status != 2"
on_class_changed_overwrites_added(C, new_class_id) ==
    LET idx == C.D.current_region_index
        region == C.regs[idx + 1]
        final_label_index == region.final_label_index
    IN  IF InRange(final_label_index, region.label_confidence)
        THEN LET updated ==
                     [region EXCEPT !.label_confidence[final_label_index + 1] = new_class_id,
                                    !.modified_status = 1]
                 C1 == [SetRegion(C, idx, updated) EXCEPT !.D.modify_spin = 1]
             IN  load_region_data(update_display(update_region_list(Dirty(C1))), updated)
        ELSE Show(C, "index_warning")

\* on_class_changed marking the region as added instead of modified
on_class_changed_marks_added(C, new_class_id) ==
    LET idx == C.D.current_region_index
        region == C.regs[idx + 1]
        final_label_index == region.final_label_index
    IN  IF InRange(final_label_index, region.label_confidence)
        THEN LET updated ==
                     [region EXCEPT !.label_confidence[final_label_index + 1] = new_class_id,
                                    !.modified_status = 2]
                 C1 == [SetRegion(C, idx, updated) EXCEPT !.D.modify_spin = 2]
             IN  load_region_data(update_display(update_region_list(Dirty(C1))), updated)
        ELSE Show(C, "index_warning")

\* on_class_changed rewriting the last candidate instead of the final one
on_class_changed_rewrites_last(C, new_class_id) ==
    LET idx == C.D.current_region_index
        region == C.regs[idx + 1]
        final_label_index == region.final_label_index
    IN  IF InRange(final_label_index, region.label_confidence)
        THEN LET relabelled ==
                     [region EXCEPT !.label_confidence[Len(region.label_confidence)] =
                                        new_class_id]
                 updated ==
                     IF relabelled.modified_status # 2
                     THEN [relabelled EXCEPT !.modified_status = 1]
                     ELSE relabelled
                 C1 == SetRegion(C, idx, updated)
                 C2 == IF relabelled.modified_status # 2
                       THEN [C1 EXCEPT !.D.modify_spin = 1]
                       ELSE C1
             IN  load_region_data(update_display(update_region_list(Dirty(C2))), updated)
        ELSE Show(C, "index_warning")

\* on_class_changed setting the status without writing the label
on_class_changed_keeps_label(C, new_class_id) ==
    LET idx == C.D.current_region_index
        region == C.regs[idx + 1]
        final_label_index == region.final_label_index
    IN  IF InRange(final_label_index, region.label_confidence)
        THEN LET updated ==
                     IF region.modified_status # 2
                     THEN [region EXCEPT !.modified_status = 1]
                     ELSE region
                 C1 == SetRegion(C, idx, updated)
                 C2 == IF region.modified_status # 2
                       THEN [C1 EXCEPT !.D.modify_spin = 1]
                       ELSE C1
             IN  load_region_data(update_display(update_region_list(Dirty(C2))), updated)
        ELSE Show(C, "index_warning")

\* DetailDialog.on_class_changed, past its guards: the user picked
\* new_class_id and current_region_index is a valid index.
on_class_changed(C, new_class_id) ==
    LET idx == C.D.current_region_index
        region == C.regs[idx + 1]
        final_label_index == region.final_label_index
    IN  IF InRange(final_label_index, region.label_confidence)
        THEN LET relabelled ==
                     [region EXCEPT !.label_confidence[final_label_index + 1] = new_class_id]
                 updated ==
                     IF relabelled.modified_status # 2
                     THEN [relabelled EXCEPT !.modified_status = 1]
                     ELSE relabelled
                 C1 == SetRegion(C, idx, updated)
                 C2 == IF relabelled.modified_status # 2
                       THEN [C1 EXCEPT !.D.modify_spin = 1]
                       ELSE C1
             IN  load_region_data(update_display(update_region_list(Dirty(C2))), updated)
        ELSE Show(C, "index_warning")

\* on_modify_changed refusing to overwrite the status Added
on_modify_changed_keeps_added(C, value) ==
    IF C.regs[C.D.current_region_index + 1].modified_status = 2
    THEN C
    ELSE update_region_list(Dirty(
             SetRegion(C, C.D.current_region_index,
                       [C.regs[C.D.current_region_index + 1] EXCEPT !.modified_status = value])))

\* DetailDialog.on_modify_changed, past its guards
on_modify_changed(C, value) ==
    update_region_list(Dirty(
        SetRegion(C, C.D.current_region_index,
                  [C.regs[C.D.current_region_index + 1] EXCEPT !.modified_status = value])))

\* QSpinBox.setValue outside the "updating" flag: valueChanged reaches
\* on_modify_changed when the value differs from the one shown.
SpinSetValue(C, value) ==
    IF C.D.modify_spin = value
    THEN C
    ELSE LET C1 == [C EXCEPT !.D.modify_spin = value]
         IN  IF C1.D.current_region_index >= 0 THEN on_modify_changed(C1, value) ELSE C1

\* quick_confirm_current_region without the jump to the next region
quick_confirm_current_region_no_advance(C, d) ==
    LET idx == C.D.current_region_index
    IN  IF InRange(idx, C.regs)
        THEN LET region == C.regs[idx + 1]
                 C1 == IF region.modified_status # 2
                       THEN update_display(update_region_list(
                                SpinSetValue(
                                    Dirty(SetRegion(C, idx,
                                                    [region EXCEPT !.modified_status = 1])),
                                    1)))
                       ELSE C
             IN  IF idx < Len(C1.regs) - 1
                 THEN C1
                 ELSE Show(C1, "all_confirmed")
        ELSE C

\* DetailDialog.quick_confirm_current_region
quick_confirm_current_region(C, d) ==
    LET idx == C.D.current_region_index
    IN  IF InRange(idx, C.regs)
        THEN LET region == C.regs[idx + 1]
                 C1 == IF region.modified_status # 2
                       THEN update_display(update_region_list(
                                SpinSetValue(
                                    Dirty(SetRegion(C, idx,
                                                    [region EXCEPT !.modified_status = 1])),
                                    1)))
                       ELSE C
             IN  IF idx < Len(C1.regs) - 1
                 THEN go_to_next_region(C1, d)
                 ELSE Show(C1, "all_confirmed")
        ELSE C

\* list.pop(idx), 0 <= idx < len
RemoveAt(regs, idx) == SubSeq(regs, 1, idx) \o SubSeq(regs, idx + 2, Len(regs))

\* delete_current_region reselecting the deleted index without the clamp
delete_current_region_no_clamp(C, d) ==
    LET idx == C.D.current_region_index
        C1 == set_image_and_regions(update_region_list(
                  Dirty([C EXCEPT !.regs = RemoveAt(C.regs, idx)])))
    IN  IF C1.regs # <<>>
        THEN Show(update_navigation_buttons(
                      focus_on_region(on_region_clicked(C1, idx), d, idx)),
                  "delete_ok")
        ELSE Show(update_navigation_buttons(
                      [C1 EXCEPT !.D.current_region_index = -1,
                                 !.D.delete_enabled = FALSE,
                                 !.D.confirm_enabled = FALSE,
                                 !.D.class_combo = Catalog[1],
                                 !.D.modify_spin = 0]),
                  "delete_ok")

\* DetailDialog.delete_current_region after the user confirmed
delete_current_region(C, d) ==
    LET idx == C.D.current_region_index
        C1 == set_image_and_regions(update_region_list(
                  Dirty([C EXCEPT !.regs = RemoveAt(C.regs, idx)])))
    IN  IF C1.regs # <<>>
        THEN LET new_index == IF idx >= Len(C1.regs) THEN Len(C1.regs) - 1 ELSE idx
             IN  Show(update_navigation_buttons(
                          focus_on_region(on_region_clicked(C1, new_index), d, new_index)),
                      "delete_ok")
        ELSE Show(update_navigation_buttons(
                      [C1 EXCEPT !.D.current_region_index = -1,
                                 !.D.delete_enabled = FALSE,
                                 !.D.confirm_enabled = FALSE,
                                 !.D.class_combo = Catalog[1],
                                 !.D.modify_spin = 0]),
                  "delete_ok")

\* the identity of a new dict: none of the dicts in the list
FreshId(regs) ==
    CHOOSE n \in 1..(Len(regs) + 1) :
        /\ \A k \in 1..Len(regs) : regs[k].id # n
        /\ \A m \in 1..(n - 1) : \E k \in 1..Len(regs) : regs[k].id = m

\* the new region keeping the screen coordinates of the drag
new_region_screen_space(regs, x, y, width, height, scale) ==
    [id |-> FreshId(regs),
     x |-> x, y |-> y, width |-> width, height |-> height,
     label_confidence |-> <<11, 1, 11, 11>>, final_label_index |-> 1,
     modified_status |-> 2, yolo_confidence |-> 0]

\* the dict built by DetailDialog.add_new_defect_region
new_region(regs, x, y, width, height, scale) ==
    [id |-> FreshId(regs),
     x |-> Unscaled(x, scale), y |-> Unscaled(y, scale),
     width |-> Unscaled(width, scale), height |-> Unscaled(height, scale),
     label_confidence |-> <<11, 1, 11, 11>>, final_label_index |-> 1,
     modified_status |-> 2, yolo_confidence |-> 0]

\* DetailDialog.toggle_add_defect_mode (the dialog's flag and the label's
\* flag are set together)
toggle_add_defect_mode(C) ==
    LET C1 == [C EXCEPT !.D.add_defect_mode = ~C.D.add_defect_mode]
    IN  IF C1.D.add_defect_mode THEN C1 ELSE update_display(C1)

\* DetailDialog.add_new_defect_region
add_new_defect_region(C, d, x, y, width, height) ==
    LET region == new_region(C.regs, x, y, width, height, C.D.scale_factor)
        C1 == set_image_and_regions(update_region_list(
                  Dirty([C EXCEPT !.regs = Append(C.regs, region)])))
        new_index == Len(C1.regs) - 1
    IN  Show(toggle_add_defect_mode(
                 focus_on_region(on_region_clicked(C1, new_index), d, new_index)),
             "add_ok")

\* The hit test of ImageLabel.mouseReleaseEvent: the first region of the
\* label's list whose scaled box holds the point, -1 when there is none.
Hit(region, p, scale) ==
    LET x == Scaled(region.x, scale)
        y == Scaled(region.y, scale)
        width == Scaled(region.width, scale)
        height == Scaled(region.height, scale)
    IN  /\ x <= p[1] /\ p[1] <= x + width
        /\ y <= p[2] /\ p[2] <= y + height

\* the hit test going on after a hit: the last region holding the point wins
FirstHit_last_wins(regs, p, scale, i) ==
    LET hits == {k \in i..(Len(regs) - 1) : Hit(regs[k + 1], p, scale)}
    IN  IF hits = {} THEN -1 ELSE CHOOSE k \in hits : \A j \in hits : j <= k

RECURSIVE FirstHit(_, _, _, _)
FirstHit(regs, p, scale, i) ==
    IF i >= Len(regs) THEN -1
    ELSE IF Hit(regs[i + 1], p, scale) THEN i
    ELSE FirstHit(regs, p, scale, i + 1)

\* _scroll_to_region_center bringing the region's corner to the centre
scroll_to_region_center_corner(D, regs, region_index) ==
    IF InRange(region_index, regs)
    THEN LET region == regs[region_index + 1]
             x == Scaled(region.x, D.scale_factor)
             y == Scaled(region.y, D.scale_factor)
             max_h == Max2(0, Scaled(Env.img_w, D.zoom_factor) - Env.view_w)
             max_v == Max2(0, Scaled(Env.img_h, D.zoom_factor) - Env.view_h)
             target_x == Max2(0, x - Env.view_w \div 2)
             target_y == Max2(0, y - Env.view_h \div 2)
         IN  [D EXCEPT !.h_scroll = Min2(target_x, max_h),
                       !.v_scroll = Min2(target_y, max_v)]
    ELSE D

\* ImageLabel._scroll_to_region_center on a living label: the scroll bars'
\* maxima are the displayed size less the viewport size.
scroll_to_region_center(D, regs, region_index) ==
    IF InRange(region_index, regs)
    THEN LET region == regs[region_index + 1]
             x == Scaled(region.x, D.scale_factor)
             y == Scaled(region.y, D.scale_factor)
             width == Scaled(region.width, D.scale_factor)
             height == Scaled(region.height, D.scale_factor)
             center_x == x + width \div 2
             center_y == y + height \div 2
             max_h == Max2(0, Scaled(Env.img_w, D.zoom_factor) - Env.view_w)
             max_v == Max2(0, Scaled(Env.img_h, D.zoom_factor) - Env.view_h)
             target_x == Max2(0, center_x - Env.view_w \div 2)
             target_y == Max2(0, center_y - Env.view_h \div 2)
         IN  [D EXCEPT !.h_scroll = Min2(target_x, max_h),
                       !.v_scroll = Min2(target_y, max_v)]
    ELSE D


(***************************************************************************)
(* Saving and closing.                                                     *)
(***************************************************************************)
\* json.dump(self.json_data): the document holds the regions list of every
\* pic_info that has the key 'regions'.
DocOf(g) ==
    [i \in Images |-> IF linked[g][i] THEN PicInfo(breg[g][i]) ELSE NoRegionsKey]

Replies == {"Yes", "No"}
Answers == {"Save", "Discard", "Cancel"}
\* open(path, 'w') fails and leaves the file; json.dump fails after the file
\* was truncated; or the write succeeds.
IoResults == {"ok", "open_fail", "write_fail"}

\* save_json_data returning before it wrote
save_json_data_skips_write(f, ps, jg, io) ==
    IF ~ps \/ jg = 0 THEN [file |-> f, raised |-> TRUE]
    ELSE IF io = "ok" THEN [file |-> f, raised |-> FALSE]
    ELSE IF io = "open_fail" THEN [file |-> f, raised |-> TRUE]
    ELSE [file |-> CorruptFile, raised |-> TRUE]

\* SilkLabelApp.save_json_data on file content f, with selected_file_path
\* set (ps) and json_data the document jg: the file afterwards and whether
\* it raised.
save_json_data(f, ps, jg, io) ==
    IF ~ps \/ jg = 0
    THEN [file |-> f, raised |-> TRUE]
    ELSE IF io = "ok" THEN [file |-> [ok |-> TRUE, doc |-> DocOf(jg)], raised |-> FALSE]
    ELSE IF io = "open_fail" THEN [file |-> f, raised |-> TRUE]
    ELSE [file |-> CorruptFile, raised |-> TRUE]

\* save_changes clearing regions_modified also when the save raised
save_changes_clears_flag_on_error(f, regions_modified, ps, jg, reply, io) ==
    IF ~regions_modified
    THEN [file |-> f, regions_modified |-> FALSE, msgs |-> {}, out |-> "clean"]
    ELSE IF reply # "Yes"
    THEN [file |-> f, regions_modified |-> TRUE, msgs |-> {"ask_save"}, out |-> "declined"]
    ELSE LET W == save_json_data(f, ps, jg, io)
         IN  IF W.raised
             THEN [file |-> W.file, regions_modified |-> FALSE,
                   msgs |-> {"ask_save", "save_error"}, out |-> "failed"]
             ELSE [file |-> W.file, regions_modified |-> FALSE,
                   msgs |-> {"ask_save", "save_ok"}, out |-> "saved"]

\* DetailDialog.save_changes up to its closing self.close(): the file, the
\* dirty flag, the boxes shown and the outcome.
save_changes(f, regions_modified, ps, jg, reply, io) ==
    IF ~regions_modified
    THEN [file |-> f, regions_modified |-> FALSE, msgs |-> {}, out |-> "clean"]
    ELSE IF reply # "Yes"
    THEN [file |-> f, regions_modified |-> TRUE, msgs |-> {"ask_save"}, out |-> "declined"]
    ELSE LET W == save_json_data(f, ps, jg, io)
         IN  IF W.raised
             THEN [file |-> W.file, regions_modified |-> TRUE,
                   msgs |-> {"ask_save", "save_error"}, out |-> "failed"]
             ELSE [file |-> W.file, regions_modified |-> FALSE,
                   msgs |-> {"ask_save", "save_ok"}, out |-> "saved"]

\* closeEvent accepting the event when the user answers Cancel
closeEvent_cancel_accepts(f, regions_modified, ps, jg, ans, reply, io) ==
    IF regions_modified
    THEN IF ans = "Save"
         THEN LET S == save_changes(f, regions_modified, ps, jg, reply, io)
              IN  [file |-> S.file, accepted |-> TRUE, regions_modified |-> S.regions_modified,
                   msgs |-> {"ask_close"} \cup S.msgs, ans |-> ans, csave |-> S.out]
         ELSE [file |-> f, accepted |-> TRUE, regions_modified |-> TRUE,
               msgs |-> {"ask_close"}, ans |-> ans, csave |-> "none"]
    ELSE [file |-> f, accepted |-> TRUE, regions_modified |-> FALSE,
          msgs |-> {}, ans |-> "none", csave |-> "none"]

\* DetailDialog.closeEvent.  The self.close() that ends the save_changes it
\* calls arrives while the widget is closing, and Qt returns from a close()
\* made during a close without delivering a second close event.
closeEvent(f, regions_modified, ps, jg, ans, reply, io) ==
    IF regions_modified
    THEN IF ans = "Save"
         THEN LET S == save_changes(f, regions_modified, ps, jg, reply, io)
              IN  [file |-> S.file, accepted |-> TRUE, regions_modified |-> S.regions_modified,
                   msgs |-> {"ask_close"} \cup S.msgs, ans |-> ans, csave |-> S.out]
         ELSE IF ans = "Discard"
         THEN [file |-> f, accepted |-> TRUE, regions_modified |-> TRUE,
               msgs |-> {"ask_close"}, ans |-> ans, csave |-> "none"]
         ELSE [file |-> f, accepted |-> FALSE, regions_modified |-> TRUE,
               msgs |-> {"ask_close"}, ans |-> ans, csave |-> "none"]
    ELSE [file |-> f, accepted |-> TRUE, regions_modified |-> FALSE,
          msgs |-> {}, ans |-> "none", csave |-> "none"]

\* The user answers the boxes that are shown, and the write is attempted
\* when save_json_data reaches open(): an answer or an I/O result that is
\* not read takes the first value.
SaveInputs(regions_modified, ps, jg, reply, io) ==
    /\ regions_modified \/ reply = "No"
    /\ (regions_modified /\ reply = "Yes" /\ ps /\ jg # 0) \/ io = "ok"
CloseInputs(regions_modified, ps, jg, ans, reply, io) ==
    /\ regions_modified \/ ans = "Cancel"
    /\ SaveInputs(regions_modified /\ ans = "Save", ps, jg, reply, io)

\* The timers of a label whose dialog closed stay pending.
Orphan(t, d, D) ==
    IF t = <<>> THEN <<>> ELSE
    [k \in 1..Len(t) |->
        IF t[k].d = d
        THEN [d |-> 0, idx |-> t[k].idx, g |-> D.g, img |-> D.img, detached |-> D.detached]
        ELSE t[k]]

\* The dialogs and timers after the dialog in slot d handled a close event
\* with result R (WA_DeleteOnClose: an accepted close deletes the window).
DlgAfterClose(d, R) ==
    IF R.accepted
    THEN [dlg EXCEPT ![d] = ClosedDlg]
    ELSE [dlg EXCEPT ![d].regions_modified = R.regions_modified]
TimersAfterClose(d, R) == IF R.accepted THEN Orphan(timers, d, dlg[d]) ELSE timers

\* A document no button, dialog or timer refers to any more is garbage.
Live(g, jg, bg, dl, tm) ==
    \/ g = jg
    \/ g = bg
    \/ \E s \in Slots : dl[s].open /\ dl[s].g = g
    \/ \E k \in 1..Len(tm) : tm[k].g = g

Collect(br, jg, bg, dl, tm) ==
    [g \in Gens |-> IF Live(g, jg, bg, dl, tm) THEN br[g] ELSE EmptyGen]
CollectLinks(ln, jg, bg, dl, tm) ==
    [g \in Gens |-> IF Live(g, jg, bg, dl, tm) THEN ln[g] ELSE UnlinkedGen]


(***************************************************************************)
(* Actions: one per user event or timer callback.                          *)
(***************************************************************************)
\* one more event handled (Ready holds the budget)
Tick == steps' = steps + 1 /\ UNCHANGED call

\* The new state of the application, with unreachable documents collected.
Finish(f, ps, jg, bg, ld, br, ln, dl, dd, tm, la) ==
    /\ file' = f
    /\ path_set' = ps
    /\ json_gen' = jg
    /\ btn_gen' = bg
    /\ loads' = ld
    /\ breg' = Collect(br, jg, bg, dl, tm)
    /\ linked' = CollectLinks(ln, jg, bg, dl, tm)
    /\ dlg' = dl
    /\ detail_dialog' = dd
    /\ timers' = tm
    /\ crashed' = FALSE
    /\ Tick
    /\ last' = la

\* The state after a handler of the dialog in slot d returned context C.
Commit(d, C, op, arg) ==
    /\ dlg' = [dlg EXCEPT ![d] = C.D]
    /\ breg' = [breg EXCEPT ![dlg[d].g][dlg[d].img] = C.regs]
    /\ timers' = C.t
    /\ Tick
    /\ last' = [Did(op, d, arg, C.msgs) EXCEPT !.drawn = C.drawn]
    /\ UNCHANGED <<file, path_set, json_gen, btn_gen, loads, linked, detail_dialog, crashed>>

\* An exception leaves a Qt slot: PyQt6 aborts the process.
Crash(op, d, arg) ==
    /\ crashed' = TRUE
    /\ Tick
    /\ last' = Did(op, d, arg, {})
    /\ UNCHANGED <<file, path_set, json_gen, btn_gen, loads, breg, linked, dlg,
                   detail_dialog, timers>>

\* A handler that changes nothing but what the user is shown.
Shown(op, d, arg, msgs) ==
    /\ Tick
    /\ last' = Did(op, d, arg, msgs)
    /\ UNCHANGED <<file, path_set, json_gen, btn_gen, loads, breg, linked, dlg,
                   detail_dialog, timers, crashed>>

Here(d) == Ctx(dlg[d], ButtonRegions(dlg[d]), timers)
\* the process runs and the budget of events is not spent
Ready == ~crashed /\ steps < MaxSteps
Usable(d) == Ready /\ dlg[d].open
\* the cap on pending timers, for the handlers that may schedule one
Room == Len(timers) < MaxPending

FreeSlot == CHOOSE s \in Slots : ~dlg[s].open /\ \A r \in Slots : r < s => dlg[r].open

\* DetailDialog.__init__ selecting region 0 without testing button.regions
OpenImage_always_selects(i, exists) ==
    /\ Ready
    /\ btn_gen # 0
    /\ \E s \in Slots : ~dlg[s].open
    /\ Room
    /\ IF ~exists
       THEN Shown("open", 0, i, {"image_missing"})
       ELSE LET s == FreeSlot
                regs == breg[btn_gen][i]
                D0 == [ClosedDlg EXCEPT !.open = TRUE, !.g = btn_gen, !.img = i]
                C0 == update_region_list(set_image_and_regions(Ctx(D0, regs, timers)))
                C1 == focus_on_region(on_region_clicked(C0, 0), s, 0)
            IN  /\ dlg' = [dlg EXCEPT ![s] = C1.D]
                /\ timers' = C1.t
                /\ detail_dialog' = s
                /\ Tick
                /\ last' = [Did("open", s, i, {}) EXCEPT !.drawn = C1.drawn]
                /\ UNCHANGED <<file, path_set, json_gen, btn_gen, loads, breg, linked,
                               crashed>>

\* SilkLabelApp.on_image_button_clicked with DetailDialog.__init__
OpenImage(i, exists) ==
    /\ Ready
    /\ btn_gen # 0
    /\ \E s \in Slots : ~dlg[s].open
    /\ Room
    /\ IF ~exists
       THEN Shown("open", 0, i, {"image_missing"})
       ELSE LET s == FreeSlot
                regs == breg[btn_gen][i]
                D0 == [ClosedDlg EXCEPT !.open = TRUE, !.g = btn_gen, !.img = i]
                C0 == update_region_list(set_image_and_regions(Ctx(D0, regs, timers)))
                C1 == IF regs # <<>>
                      THEN focus_on_region(on_region_clicked(C0, 0), s, 0)
                      ELSE C0
            IN  /\ dlg' = [dlg EXCEPT ![s] = C1.D]
                /\ timers' = C1.t
                /\ detail_dialog' = s
                /\ Tick
                /\ last' = [Did("open", s, i, {}) EXCEPT !.drawn = C1.drawn]
                /\ UNCHANGED <<file, path_set, json_gen, btn_gen, loads, breg, linked,
                               crashed>>

\* DetailDialog.on_region_list_item_clicked: an item of the list widget
ListClick(d, region_index) ==
    /\ Usable(d) /\ Room
    /\ region_index < dlg[d].list_count
    /\ Commit(d, focus_on_region(on_region_clicked(Here(d), region_index), d, region_index),
              "list_click", region_index)

\* ImageLabel.mouseReleaseEvent, left button, no pan: a click at point p
CanvasClick(d, p) ==
    /\ Usable(d)
    /\ LET C == Here(d)
           hit == FirstHit(LabelRegions(C.D, C.regs), p, C.D.scale_factor, 0)
       IN  IF hit >= 0
           THEN Commit(d, on_region_clicked(C, hit), "click", hit)
           ELSE Commit(d, on_region_unselected(C), "unselect", -1)

\* Left / Up key or the previous button
PreviousRegion(d) ==
    /\ Usable(d) /\ Room
    /\ Commit(d, go_to_previous_region(Here(d), d), "previous", dlg[d].current_region_index)

\* Right / Down key or the next button
NextRegion(d) ==
    /\ Usable(d) /\ Room
    /\ Commit(d, go_to_next_region(Here(d), d), "next", dlg[d].current_region_index)

\* The user picks class c in the class combo: currentTextChanged reaches
\* DetailDialog.on_class_changed.
ChangeClass(d, c) ==
    /\ Usable(d)
    /\ c # dlg[d].class_combo
    /\ LET C == [Here(d) EXCEPT !.D.class_combo = c]
       IN  IF C.D.current_region_index < 0
           THEN Commit(d, C, "class_noselection", c)
           ELSE IF ~InRange(C.D.current_region_index, C.regs)
           THEN Crash("class", d, c)
           ELSE Commit(d, on_class_changed(C, c), "class", c)

\* The user sets the status spin box to v: valueChanged reaches
\* DetailDialog.on_modify_changed.
ChangeStatus(d, v) ==
    /\ Usable(d)
    /\ v # dlg[d].modify_spin
    /\ LET C == [Here(d) EXCEPT !.D.modify_spin = v]
       IN  IF C.D.current_region_index < 0
           THEN Commit(d, C, "status_noselection", v)
           ELSE IF ~InRange(C.D.current_region_index, C.regs)
           THEN Crash("status", d, v)
           ELSE Commit(d, on_modify_changed(C, v), "status", v)

\* Space key or the confirm button
QuickConfirm(d) ==
    /\ Usable(d) /\ Room
    /\ Commit(d, quick_confirm_current_region(Here(d), d), "confirm",
              dlg[d].current_region_index)

\* the delete handler going on to delete whatever the confirmation box answers
DeleteRegion_unasked(d, confirm) ==
    /\ Usable(d)
    /\ dlg[d].current_region_index >= 0
    /\ IF ~InRange(dlg[d].current_region_index, ButtonRegions(dlg[d]))
       THEN Shown("delete_rejected", d, dlg[d].current_region_index, {"delete_warning"})
       ELSE /\ Room \/ Len(ButtonRegions(dlg[d])) = 1
            /\ Commit(d, Show(delete_current_region(Here(d), d), "ask_delete"),
                      "delete", dlg[d].current_region_index)

\* Delete / Backspace key (DetailDialog.keyPressEvent asks for an index >= 0;
\* the delete button is enabled only while current_region_index >= 0)
\* with the answer to the confirmation box
DeleteRegion(d, confirm) ==
    /\ Usable(d)
    /\ dlg[d].current_region_index >= 0
    /\ IF ~InRange(dlg[d].current_region_index, ButtonRegions(dlg[d]))
       THEN Shown("delete_rejected", d, dlg[d].current_region_index, {"delete_warning"})
       ELSE IF ~confirm
       THEN Shown("delete_declined", d, dlg[d].current_region_index, {"ask_delete"})
       ELSE /\ Room \/ Len(ButtonRegions(dlg[d])) = 1
            /\ Commit(d, Show(delete_current_region(Here(d), d), "ask_delete"),
                      "delete", dlg[d].current_region_index)

\* The add-defect button
ToggleAddMode(d) ==
    /\ Usable(d)
    /\ Commit(d, toggle_add_defect_mode(Here(d)), "toggle_add", 0)

\* ImageLabel.mousePressEvent .. mouseReleaseEvent, right button: a drag
\* whose final_rect is r (screen space).  Outside add-defect mode the press
\* does not start a drawing and the release does nothing.
DragRelease(d, r) ==
    /\ Usable(d) /\ Room
    /\ IF ~dlg[d].add_defect_mode
       THEN Shown("drag_ignored", d, r.width, {})
       ELSE IF r.width >= 10 /\ r.height >= 10
       THEN /\ Len(ButtonRegions(dlg[d])) < MaxRegions
            /\ Commit(d, add_new_defect_region(Here(d), d, r.x, r.y, r.width, r.height),
                      "add", r.width)
       ELSE Shown("drag_small", d, r.width, {})

\* The zoom buttons of the dialog, or the keys + = - 0 on the image label
ZoomIn(d) ==
    /\ Usable(d)
    /\ Commit(d, zoom_in(Here(d)), "zoom_in", dlg[d].zoom_factor)

ZoomOut(d) ==
    /\ Usable(d)
    /\ Commit(d, zoom_out(Here(d)), "zoom_out", dlg[d].zoom_factor)

ZoomReset(d, exact) ==
    /\ Usable(d)
    /\ exact \/ ~NearOne(dlg[d].zoom_factor)
    /\ Commit(d, zoom_reset(Here(d), exact), "zoom_reset", dlg[d].zoom_factor)

\* One notch of the mouse wheel over point p of the image label
Wheel(d, up, p) ==
    /\ Usable(d)
    /\ p[1] < LabelW(dlg[d]) /\ p[2] < LabelH(dlg[d])
    /\ Commit(d, wheelEvent(Here(d), up, p), "wheel", dlg[d].zoom_factor)

\* A left-button drag on the image label by delta: press, one move past the
\* click threshold, release (which ends the pan and selects nothing).
Pan(d, delta) ==
    /\ Usable(d)
    /\ manhattanLength(delta) > click_threshold
    /\ Commit(d, mouseMoveEvent(Here(d), delta), "pan", 0)

\* The show / hide regions button
ToggleRegionsVisibility(d) ==
    /\ Usable(d)
    /\ Commit(d, toggle_regions_visibility(Here(d)), "toggle_regions", 0)


\* The save button: DetailDialog.save_changes, whose last statement closes
\* the dialog (DetailDialog.closeEvent).
SaveButton(d, reply, io, ans, reply2, io2) ==
    /\ Usable(d)
    /\ SaveInputs(dlg[d].regions_modified, path_set, json_gen, reply, io)
    /\ LET S == save_changes(file, dlg[d].regions_modified, path_set, json_gen, reply, io)
           R == closeEvent(S.file, S.regions_modified, path_set, json_gen, ans, reply2, io2)
       IN  /\ CloseInputs(S.regions_modified, path_set, json_gen, ans, reply2, io2)
           /\ Finish(R.file, path_set, json_gen, btn_gen, loads, breg, linked,
                     DlgAfterClose(d, R),
                     IF R.accepted THEN 0 ELSE detail_dialog,
                     TimersAfterClose(d, R),
                     [op |-> "save_button", d |-> d, arg |-> 0, save |-> S.out,
                      csave |-> R.csave, ans |-> R.ans, flag |-> R.regions_modified,
                      msgs |-> S.msgs \cup R.msgs])

\* The cancel button, the Escape key or the window's close button
CloseRequest(d, ans, reply, io) ==
    /\ Usable(d)
    /\ CloseInputs(dlg[d].regions_modified, path_set, json_gen, ans, reply, io)
    /\ LET R == closeEvent(file, dlg[d].regions_modified, path_set, json_gen, ans, reply, io)
       IN  Finish(R.file, path_set, json_gen, btn_gen, loads, breg, linked,
                  DlgAfterClose(d, R),
                  IF R.accepted THEN 0 ELSE detail_dialog,
                  TimersAfterClose(d, R),
                  [op |-> "close", d |-> d, arg |-> 0, save |-> "none",
                   csave |-> R.csave, ans |-> R.ans, flag |-> R.regions_modified,
                   msgs |-> R.msgs])

ReferredDirty == detail_dialog # 0 /\ dlg[detail_dialog].regions_modified

\* What SilkLabelApp does to the dialog it refers to before it loads or
\* clears: detail_dialog.close(), then detail_dialog = None whatever the
\* dialog answered.
NoClose == [file |-> file, accepted |-> FALSE, regions_modified |-> FALSE,
            msgs |-> {}, ans |-> "none", csave |-> "none"]
CloseReferred(ps, jg, ans, reply, io) ==
    IF detail_dialog = 0
    THEN NoClose
    ELSE closeEvent(file, dlg[detail_dialog].regions_modified, ps, jg, ans, reply, io)

\* SilkLabelApp.select_json_file with load_json_file
LoadJson(ans, reply, io) ==
    /\ Ready
    /\ CloseInputs(ReferredDirty, TRUE, json_gen, ans, reply, io)
    /\ LET R == CloseReferred(TRUE, json_gen, ans, reply, io)
           dl == IF detail_dialog = 0 THEN dlg ELSE DlgAfterClose(detail_dialog, R)
           tm == IF detail_dialog = 0 THEN timers ELSE TimersAfterClose(detail_dialog, R)
           g == loads + 1
       IN  IF R.file.ok
           THEN /\ loads < MaxLoads
                /\ Finish(R.file, TRUE, g, g, g,
                          [breg EXCEPT ![g] = [i \in Images |-> R.file.doc[i].regs]],
                          [linked EXCEPT ![g] = [i \in Images |-> R.file.doc[i].has]],
                          dl, 0, tm,
                          [op |-> "load", d |-> detail_dialog, arg |-> g, save |-> "none",
                           csave |-> R.csave, ans |-> R.ans, flag |-> R.regions_modified,
                           msgs |-> R.msgs])
           ELSE Finish(R.file, TRUE, json_gen, 0, loads, breg, linked, dl, 0, tm,
                       [op |-> "load_failed", d |-> detail_dialog, arg |-> 0,
                        save |-> "none", csave |-> R.csave, ans |-> R.ans,
                        flag |-> R.regions_modified,
                        msgs |-> R.msgs \cup {"load_error"}])

\* SilkLabelApp.clear_content (its button is enabled once a load succeeded)
ClearContent(ans, reply, io) ==
    /\ Ready
    /\ json_gen # 0
    /\ CloseInputs(ReferredDirty, FALSE, 0, ans, reply, io)
    /\ LET R == CloseReferred(FALSE, 0, ans, reply, io)
           dl == IF detail_dialog = 0 THEN dlg ELSE DlgAfterClose(detail_dialog, R)
           tm == IF detail_dialog = 0 THEN timers ELSE TimersAfterClose(detail_dialog, R)
       IN  Finish(R.file, FALSE, 0, 0, loads, breg, linked, dl, 0, tm,
                  [op |-> "clear", d |-> detail_dialog, arg |-> 0, save |-> "none",
                   csave |-> R.csave, ans |-> R.ans, flag |-> R.regions_modified,
                   msgs |-> R.msgs])

\* The oldest pending timer fires: ImageLabel._scroll_to_region_center.  On
\* the label of a closed dialog self.parent() raises (the window was
\* deleted) once the index passed the range test.
TimerFire ==
    /\ Ready
    /\ timers # <<>>
    /\ LET e == Head(timers)
       IN  IF e.d # 0
           THEN /\ dlg' = [dlg EXCEPT ![e.d] =
                              scroll_to_region_center(
                                  dlg[e.d],
                                  LabelRegions(dlg[e.d], ButtonRegions(dlg[e.d])),
                                  e.idx)]
                /\ timers' = Tail(timers)
                /\ Tick
                /\ last' = Did("timer", e.d, e.idx, {})
                /\ UNCHANGED <<file, path_set, json_gen, btn_gen, loads, breg, linked,
                               detail_dialog, crashed>>
           ELSE IF InRange(e.idx, IF e.detached THEN <<>> ELSE breg[e.g][e.img])
           THEN Crash("timer", 0, e.idx)
           ELSE Finish(file, path_set, json_gen, btn_gen, loads, breg, linked, dlg,
                       detail_dialog, Tail(timers), Did("timer", 0, e.idx, {}))

Next ==
    \/ \E i \in Images, exists \in BOOLEAN : OpenImage(i, exists)
    \/ \E d \in Slots, k \in 0..MaxRegions : ListClick(d, k)
    \/ \E d \in Slots, p \in Points : CanvasClick(d, p)
    \/ \E d \in Slots : PreviousRegion(d)
    \/ \E d \in Slots : NextRegion(d)
    \/ \E d \in Slots, c \in CatalogIds : ChangeClass(d, c)
    \/ \E d \in Slots, v \in 0..2 : ChangeStatus(d, v)
    \/ \E d \in Slots : QuickConfirm(d)
    \/ \E d \in Slots, confirm \in BOOLEAN : DeleteRegion(d, confirm)
    \/ \E d \in Slots : ToggleAddMode(d)
    \/ \E d \in Slots, r \in Drags : DragRelease(d, r)
    \/ \E d \in Slots : ZoomIn(d)
    \/ \E d \in Slots : ZoomOut(d)
    \/ \E d \in Slots, exact \in BOOLEAN : ZoomReset(d, exact)
    \/ \E d \in Slots, up \in BOOLEAN, p \in WheelPoints : Wheel(d, up, p)
    \/ \E d \in Slots, delta \in Pans : Pan(d, delta)
    \/ \E d \in Slots : ToggleRegionsVisibility(d)
    \/ \E d \in Slots, reply \in Replies, io \in IoResults,
          ans \in Answers, reply2 \in Replies, io2 \in IoResults :
            SaveButton(d, reply, io, ans, reply2, io2)
    \/ \E d \in Slots, ans \in Answers, reply \in Replies, io \in IoResults :
            CloseRequest(d, ans, reply, io)
    \/ \E ans \in Answers, reply \in Replies, io \in IoResults : LoadJson(ans, reply, io)
    \/ \E ans \in Answers, reply \in Replies, io \in IoResults : ClearContent(ans, reply, io)
    \/ TimerFire

Spec == Init /\ [][Next]_vars

(***************************************************************************)
(* The label resolver on its own: DetailDialog.get_region_class_id is      *)
(* called once on a region whose final_label_index and label_confidence    *)
(* are drawn from the sets below.                                          *)
(***************************************************************************)
ResolverLabels == {1, 10}
LabelSeqs == UNION {[1..n -> ResolverLabels] : n \in 0..MaxLabels}
ResolverIndexes == (0 - 2)..(MaxLabels + 1)
ResolverRegions ==
    {[RegionA EXCEPT !.label_confidence = lc, !.final_label_index = k] :
        lc \in LabelSeqs, k \in ResolverIndexes}

InitResolve ==
    /\ InitApp
    /\ call \in {[fn |-> "get_region_class_id", region |-> r, after |-> r,
                   done |-> FALSE, class_id |-> 0] : r \in ResolverRegions}

\* class_id = self.get_region_class_id(region)
ResolveClass ==
    /\ call.fn = "get_region_class_id"
    /\ ~call.done
    /\ call' = [call EXCEPT !.done = TRUE,
                            !.class_id = get_region_class_id(call.region)]
    /\ UNCHANGED <<file, path_set, json_gen, btn_gen, loads, breg, linked, dlg,
                   detail_dialog, timers, crashed, steps, last>>

NextResolve == ResolveClass

SpecResolve == InitResolve /\ [][NextResolve]_vars

(***************************************************************************)
(* The three copies of the resolver on one region: the overlay             *)
(* (ImageLabel.draw_regions), the dialog (DetailDialog.update_region_list) *)
(* and the board button (ImageButton.count_cleanliness_regions) each call  *)
(* their own get_region_class_id.                                          *)
(***************************************************************************)
InitCopies ==
    /\ InitApp
    /\ call \in {[fn |-> "copies", region |-> r, done |-> FALSE,
                   overlay |-> 0, dialog |-> 0, button |-> 0] : r \in ResolverRegions}

ResolveCopies ==
    /\ call.fn = "copies"
    /\ ~call.done
    /\ call' = [call EXCEPT !.done = TRUE,
                            !.overlay = ImageLabel_get_region_class_id(call.region),
                            !.dialog = get_region_class_id(call.region),
                            !.button = ImageButton_get_region_class_id(call.region)]
    /\ UNCHANGED <<file, path_set, json_gen, btn_gen, loads, breg, linked, dlg,
                   detail_dialog, timers, crashed, steps, last>>

NextCopies == ResolveCopies

SpecCopies == InitCopies /\ [][NextCopies]_vars

(***************************************************************************)
(* One session on its own, for long runs of zoom events: the dialog was    *)
(* opened on an image with the single region RegionA, and from then on the *)
(* user zooms, turns the wheel, clicks the region in the list (which       *)
(* focuses on it) and the pending scroll timers fire.  call.C is the       *)
(* session's context, call.op the last handler, call.before the zoom       *)
(* factor it found and call.scrolled the scroll offset it left.  The runs  *)
(* are as long as it takes to reach every zoom factor: before each event   *)
(* the user has dragged both scroll bars back to 0, so that the states     *)
(* differ by what the zoom handlers compute.                               *)
(***************************************************************************)
ZoomSlot == 1
ZoomRegions == <<RegionA>>

OpenedForZoom ==
    LET D0 == [ClosedDlg EXCEPT !.open = TRUE, !.g = 1, !.img = 1]
        C0 == update_region_list(set_image_and_regions(Ctx(D0, ZoomRegions, <<>>)))
    IN  focus_on_region(on_region_clicked(C0, 0), ZoomSlot, 0)

InitZoom ==
    /\ InitApp
    /\ call = [fn |-> "zoom", C |-> OpenedForZoom, op |-> "open", before |-> 1000,
                scrolled |-> <<0, 0>>]

\* the context the next handler of the session starts from
Session == [call.C EXCEPT !.msgs = {}, !.drawn = FALSE]

\* the session handled one more event, and the user scrolled back
Zoomed(C, op) ==
    /\ call' = [call EXCEPT !.C = [C EXCEPT !.D = SetScroll(C.D, 0, 0)],
                            !.op = op,
                            !.before = call.C.D.zoom_factor,
                            !.scrolled = <<C.D.h_scroll, C.D.v_scroll>>]
    /\ UNCHANGED <<file, path_set, json_gen, btn_gen, loads, breg, linked, dlg,
                   detail_dialog, timers, crashed, steps, last>>

ZoomReady == call.fn = "zoom"

SessionZoomIn == ZoomReady /\ Zoomed(zoom_in(Session), "zoom_in")
SessionZoomOut == ZoomReady /\ Zoomed(zoom_out(Session), "zoom_out")
SessionZoomReset(exact) ==
    /\ ZoomReady
    /\ exact \/ ~NearOne(Session.D.zoom_factor)
    /\ Zoomed(zoom_reset(Session, exact), "zoom_reset")

SessionWheel(up, p) ==
    /\ ZoomReady
    /\ p[1] < LabelW(Session.D) /\ p[2] < LabelH(Session.D)
    /\ Zoomed(wheelEvent(Session, up, p), IF up THEN "wheel_up" ELSE "wheel_down")

\* on_region_list_item_clicked: select region_index and focus on it
SessionFocus(region_index) ==
    /\ ZoomReady
    /\ Len(Session.t) < MaxPending
    /\ region_index < Session.D.list_count
    /\ Zoomed(focus_on_region(on_region_clicked(Session, region_index),
                              ZoomSlot, region_index), "focus")

\* the oldest pending timer of the session fires
SessionTimer ==
    /\ ZoomReady
    /\ Session.t # <<>>
    /\ Zoomed([Session EXCEPT
                  !.D = scroll_to_region_center(Session.D,
                                                LabelRegions(Session.D, Session.regs),
                                                Head(Session.t).idx),
                  !.t = Tail(Session.t)], "timer")

NextZoom ==
    \/ SessionZoomIn
    \/ SessionZoomOut
    \/ \E exact \in BOOLEAN : SessionZoomReset(exact)
    \/ \E up \in BOOLEAN, p \in WheelPoints : SessionWheel(up, p)
    \/ \E k \in 0..(Len(ZoomRegions) - 1) : SessionFocus(k)
    \/ SessionTimer

SpecZoom == InitZoom /\ [][NextZoom]_vars

(***************************************************************************)
(* One zoom on its own: the session shows the image at one of AnchorZooms  *)
(* with the scroll bars at one of AnchorScrolls (bounded to their range),  *)
(* and one zoom handler runs.  call.from is the dialog before the call,    *)
(* call.C the context after it, call.anchor2 twice the viewport position   *)
(* of the anchor (the cursor for the wheel, the viewport centre for the    *)
(* others).                                                                *)
(***************************************************************************)
AnchorZooms == {100, 800, 990, 995, 1000, 1200, 1440, 5000}
AnchorScrolls == {0, 7, 90}
AnchorPoints == {<<10, 10>>, <<95, 60>>}

Showing(zoom, h, v) ==
    LET C == update_display([OpenedForZoom EXCEPT !.D.zoom_factor = zoom, !.t = <<>>])
    IN  SetScroll(C.D, h, v)

InitAnchor ==
    /\ InitApp
    /\ call \in {[fn |-> "anchor", from |-> Showing(z, h, v),
                   C |-> Ctx(Showing(z, h, v), ZoomRegions, <<>>),
                   op |-> "none", anchor2 |-> <<0, 0>>] :
                     z \in AnchorZooms, h \in AnchorScrolls, v \in AnchorScrolls}

\* one handler ran on the session
Anchored(C, op, anchor2) ==
    /\ call.fn = "anchor"
    /\ call.op = "none"
    /\ call' = [call EXCEPT !.C = C, !.op = op, !.anchor2 = anchor2]
    /\ UNCHANGED <<file, path_set, json_gen, btn_gen, loads, breg, linked, dlg,
                   detail_dialog, timers, crashed, steps, last>>

ViewCentre2 == <<Env.view_w, Env.view_h>>

AnchorZoomIn == Anchored(zoom_in(call.C), "zoom_in", ViewCentre2)
AnchorZoomOut == Anchored(zoom_out(call.C), "zoom_out", ViewCentre2)
AnchorZoomReset(exact) ==
    /\ exact \/ ~NearOne(call.C.D.zoom_factor)
    /\ Anchored(zoom_reset(call.C, exact), "zoom_reset", ViewCentre2)

\* the cursor is over point p of the label, inside the viewport
AnchorWheel(up, p) ==
    /\ p[1] < LabelW(call.C.D) /\ p[2] < LabelH(call.C.D)
    /\ call.C.D.h_scroll <= p[1] /\ p[1] < call.C.D.h_scroll + Env.view_w
    /\ call.C.D.v_scroll <= p[2] /\ p[2] < call.C.D.v_scroll + Env.view_h
    /\ Anchored(wheelEvent(call.C, up, p), IF up THEN "wheel_up" ELSE "wheel_down",
                <<2 * (p[1] - call.C.D.h_scroll), 2 * (p[2] - call.C.D.v_scroll)>>)

NextAnchor ==
    \/ AnchorZoomIn
    \/ AnchorZoomOut
    \/ \E exact \in BOOLEAN : AnchorZoomReset(exact)
    \/ \E up \in BOOLEAN, p \in AnchorPoints : AnchorWheel(up, p)

SpecAnchor == InitAnchor /\ [][NextAnchor]_vars


(***************************************************************************)
(* Properties.  A region is followed through a step by its identity, and   *)
(* the session of slot d works on the list breg[dlg[d].g][dlg[d].img].     *)
(***************************************************************************)
\* Some region of some list has status a before the step and b after it.
StatusStep(a, b) ==
    \E g \in Gens, i \in Images :
        \E k \in 1..Len(breg[g][i]), m \in 1..Len(breg'[g][i]) :
            /\ breg[g][i][k].id = breg'[g][i][m].id
            /\ breg[g][i][k].modified_status = a
            /\ breg'[g][i][m].modified_status = b

\* the region the dialog of slot d has selected
Current(d) == breg[dlg[d].g][dlg[d].img][dlg[d].current_region_index + 1]
HasCurrent(d) ==
    /\ d \in Slots
    /\ dlg[d].open
    /\ InRange(dlg[d].current_region_index, breg[dlg[d].g][dlg[d].img])

\* C1: a region whose modified_status is Added(2) never becomes Modified(1)
\* by change-class or quick-confirm; the only step that takes a region from
\* 2 to 1 is the direct status override.
C1_AddedNotDowngraded == [][StatusStep(2, 1) => last'.op = "status"]_vars

\* C1 witness: a class change has just rewritten the label of a region drawn
\* by the user, and the region is still Added(2).
C1_Witness ==
    /\ last.op = "class"
    /\ HasCurrent(last.d)
    /\ Current(last.d).yolo_confidence = 0
    /\ Current(last.d).modified_status = 2
    /\ Current(last.d).label_confidence[2] = last.arg
    /\ last.arg # 1

\* C2 as stated: no step takes an existing region from Unmodified(0) or
\* Modified(1) to Added(2).
C2_Original == [][~StatusStep(0, 2) /\ ~StatusStep(1, 2)]_vars

\* C2 amended: the only step that takes an existing region from 0 or 1 to
\* Added(2) is the direct status override with the value 2; change-class,
\* quick-confirm, add, delete, save, close and load never do.
C2_AddedOnlyByOverride ==
    [][(StatusStep(0, 2) \/ StatusStep(1, 2)) =>
          last'.op = "status" /\ last'.arg = 2]_vars

\* C2 witness: the direct override has just set a detected region to 2.
C2_Witness ==
    /\ last.op = "status"
    /\ last.arg = 2
    /\ HasCurrent(last.d)
    /\ Current(last.d).yolo_confidence # 0
    /\ Current(last.d).modified_status = 2

\* C3: a confirmed delete of the selected region at index i of N regions
\* removes exactly that region and keeps the order of the others; the
\* selection becomes N-2 when i = N-1 (-1 when N = 1) and stays i otherwise.
C3_DeleteReselects ==
    [][last'.op = "delete" =>
          LET d == last'.d
              i == dlg[d].current_region_index
              old == breg[dlg[d].g][dlg[d].img]
              new == breg'[dlg[d].g][dlg[d].img]
              N == Len(old)
          IN  /\ last'.arg = i
              /\ Len(new) = N - 1
              /\ \A k \in 1..(N - 1) : new[k] = IF k <= i THEN old[k] ELSE old[k + 1]
              /\ dlg'[d].current_region_index = IF i = N - 1 THEN N - 2 ELSE i]_vars

\* C3 witness: the last of two regions has just been deleted and the
\* selection moved to the region before it.
C3_Witness ==
    /\ last.op = "delete"
    /\ last.arg = 1
    /\ dlg[last.d].open
    /\ Len(breg[dlg[last.d].g][dlg[last.d].img]) = 1
    /\ dlg[last.d].current_region_index = 0


\* the list of the session in slot d changes in this step
ListChanges(d) ==
    /\ dlg[d].open /\ dlg'[d].open
    /\ dlg'[d].g = dlg[d].g /\ dlg'[d].img = dlg[d].img
    /\ breg'[dlg[d].g][dlg[d].img] # breg[dlg[d].g][dlg[d].img]

\* C4: every step that changes the region sequence of an open session, or
\* a field of one of its regions, leaves that session's dirty flag set.
C4_Original ==
    [][\A d \in Slots : ListChanges(d) => dlg'[d].regions_modified]_vars

\* What does hold about C4: the flag is set in the session whose handler
\* made the change (checked apart from the claims; C4 fails for the other
\* session that C8 lets work on the same list).
C4_InTheEditingSession ==
    [][\A d \in Slots : ListChanges(d) /\ last'.d = d => dlg'[d].regions_modified]_vars

\* the document json_data holds after the step
DocAfter ==
    [i \in Images |-> IF linked'[json_gen'][i] THEN PicInfo(breg'[json_gen'][i])
                      ELSE NoRegionsKey]

RegionsKept ==
    \A g \in 1..loads :
        Live(g, json_gen', btn_gen', dlg', timers') => breg'[g] = breg[g]

\* C6: when a save fails (the write fails, or there is no path or no
\* document), the error is reported, the regions in memory are unchanged
\* and the dirty flag stays set: the close that follows the save button's
\* failed save prompts, and the dialog whose close event ran the failed
\* save still has its flag set.
C6_FailedSaveKeepsState ==
    [][(last'.save = "failed" \/ last'.csave = "failed") =>
          /\ "save_error" \in last'.msgs
          /\ RegionsKept
          /\ last'.save = "failed" => "ask_close" \in last'.msgs
          /\ last'.csave = "failed" => last'.flag
          /\ (last'.save = "failed" /\ last'.csave # "saved") => last'.flag]_vars

\* C6 witness: the write of the save button's save has just failed midway,
\* the user cancelled the close, and the session is open and dirty.
C6_Witness ==
    /\ last.op = "save_button"
    /\ last.save = "failed"
    /\ last.ans = "Cancel"
    /\ ~file.ok
    /\ dlg[last.d].open
    /\ dlg[last.d].regions_modified

CloseOps == {"save_button", "close", "load", "load_failed", "clear"}

C8_Original == Cardinality({s \in Slots : dlg[s].open}) <= 1

\* C9: a recentring step never runs while a later focus request of the
\* same view is pending (the later request superseded it).
C9_Original ==
    [][(last'.op = "timer" /\ Head(timers).d # 0) =>
          \A k \in 2..Len(timers) : timers[k].d # Head(timers).d]_vars

\* C10: the resolver returns the candidate at final_label_index when the
\* index is in range, else the first candidate when there is one, else 11,
\* for negative, in-range and too large indexes and for the empty list; the
\* call returns a class id (it does not raise) and leaves the region as it was.
C10_ResolverRule ==
    call.fn = "get_region_class_id" /\ call.done =>
        LET lc == call.region.label_confidence
            k == call.region.final_label_index
        IN  /\ (k >= 0 /\ k < Len(lc)) => call.class_id = lc[k + 1]
            /\ ((k < 0 \/ k >= Len(lc)) /\ Len(lc) > 0) => call.class_id = lc[1]
            /\ Len(lc) = 0 => call.class_id = 11
            /\ call.class_id \in ResolverLabels \cup {11}
            /\ call.after = call.region

\* C10 witness: the resolver has answered for a negative index on a list
\* whose first candidate differs from its second.
C10_Witness ==
    /\ call.fn = "get_region_class_id"
    /\ call.done
    /\ call.region.final_label_index < 0
    /\ call.region.label_confidence = <<10, 1>>
    /\ call.class_id = 10


\* C11: the overlay's, the dialog's and the board button's resolver return
\* the same class id for every region, also when final_label_index is out
\* of range or the candidate list is empty.
C11_CopiesAgree ==
    (call.fn = "copies" /\ call.done) =>
        (call.overlay = call.dialog /\ call.dialog = call.button)

\* C11 witness: the three copies have answered alike for an index past the
\* end of a list whose first candidate differs from its last.
C11_Witness ==
    /\ call.fn = "copies"
    /\ call.done
    /\ call.region.label_confidence = <<1, 10>>
    /\ call.region.final_label_index = 2
    /\ call.overlay = 1 /\ call.dialog = 1 /\ call.button = 1


\* the box drawn for a region at a scale (thousandths) holds the point p
InBox(region, p, scale) ==
    LET left == (region.x * scale) \div 1000
        top == (region.y * scale) \div 1000
        right == left + (region.width * scale) \div 1000
        bottom == top + (region.height * scale) \div 1000
    IN  left <= p[1] /\ p[1] <= right /\ top <= p[2] /\ p[2] <= bottom

\* the indexes of the view's regions whose box holds p
HitsAt(d, p) ==
    LET regs == LabelRegions(dlg[d], ButtonRegions(dlg[d]))
    IN  {i \in 0..(Len(regs) - 1) : InBox(regs[i + 1], p, dlg[d].scale_factor)}

\* C12: a click selects the smallest list index whose scaled box holds the
\* point, so the earlier of two overlapping regions wins, and it gives the
\* unselected outcome exactly when no box holds the point.
C12_FirstHitWins ==
    [][\A d \in Slots, p \in Points :
          CanvasClick(d, p) =>
              IF HitsAt(d, p) = {}
              THEN last'.op = "unselect"
              ELSE /\ last'.op = "click"
                   /\ last'.arg \in HitsAt(d, p)
                   /\ \A j \in HitsAt(d, p) : last'.arg <= j
                   /\ dlg'[d].current_region_index = last'.arg]_vars

\* C12 witness: a click has just selected index 0 of two regions that both
\* hold the point (170, 130), the only clicked point inside region 0.
C12_Witness ==
    /\ last.op = "click"
    /\ last.arg = 0
    /\ dlg[last.d].open
    /\ dlg[last.d].current_region_index = 0
    /\ HitsAt(last.d, <<170, 130>>) = {0, 1}
    /\ HitsAt(last.d, <<210, 170>>) = {1}


\* C13: a click that hits no region of the view (also when the view has no
\* regions) gives the unselected outcome: the selection is -1 in the dialog
\* and on the canvas, delete and quick-confirm are disabled, and no region
\* and not the dirty flag has changed.
C13_MissUnselects ==
    [][\A d \in Slots, p \in Points :
          (CanvasClick(d, p) /\ HitsAt(d, p) = {}) =>
              /\ last'.op = "unselect"
              /\ dlg'[d].current_region_index = -1
              /\ dlg'[d].selected_region_index = -1
              /\ ~dlg'[d].delete_enabled
              /\ ~dlg'[d].confirm_enabled
              /\ breg' = breg
              /\ dlg'[d].regions_modified = dlg[d].regions_modified]_vars

\* C13 witness: a click beside the regions has just cleared the selection
\* of a session that has regions and unsaved edits.
C13_Witness ==
    /\ last.op = "unselect"
    /\ dlg[last.d].open
    /\ dlg[last.d].current_region_index = -1
    /\ dlg[last.d].regions_modified
    /\ ~dlg[last.d].confirm_enabled
    /\ Len(LabelRegions(dlg[last.d], ButtonRegions(dlg[last.d]))) = 2


\* C14 as stated: right after a session is opened on an image its selected
\* region index is -1, whatever the image's regions are.
C14_Original ==
    [][(last'.op = "open" /\ last'.d # 0) =>
          dlg'[last'.d].current_region_index = -1]_vars

\* C14 amended: right after a session is opened on an image the selection
\* is region 0 when the image has regions and none (-1) when it has none,
\* in the dialog and on the canvas, whatever was selected in any session
\* before.
C14_OpenSelectsFirst ==
    [][(last'.op = "open" /\ last'.d # 0) =>
          LET d == last'.d
              first == IF breg[btn_gen][last'.arg] = <<>> THEN -1 ELSE 0
          IN  /\ dlg'[d].open /\ ~dlg[d].open
              /\ dlg'[d].img = last'.arg
              /\ dlg'[d].current_region_index = first
              /\ dlg'[d].selected_region_index = first]_vars

\* C14 witness: a session has just been opened on an image with two
\* regions and region 0 is selected.
C14_Witness ==
    /\ last.op = "open"
    /\ last.d # 0
    /\ dlg[last.d].open
    /\ Len(ButtonRegions(dlg[last.d])) = 2
    /\ dlg[last.d].current_region_index = 0
    /\ dlg[last.d].selected_region_index = 0


\* the navigation controls of the session in slot d agree with its
\* selection and the number of its regions
NavControlsAgree(d) ==
    LET count == Len(ButtonRegions(dlg[d]))
        cur == dlg[d].current_region_index
    IN  /\ dlg[d].prev_enabled <=> cur > 0
        /\ dlg[d].next_enabled <=> cur < count - 1

\* the selection after a prev / next step of the session in slot d
NavMoves(d) ==
    LET count == Len(ButtonRegions(dlg[d]))
        cur == dlg[d].current_region_index
        new == dlg'[d].current_region_index
    IN  /\ last'.op = "previous" => new = (IF cur > 0 THEN cur - 1 ELSE cur)
        /\ last'.op = "next" => new = (IF cur < count - 1 THEN cur + 1 ELSE cur)
        /\ (cur >= 0 /\ count > 0) => (0 <= new /\ new <= count - 1)

\* C15: prev / next move the selection by exactly -1 / +1, never out of
\* [0, count-1] (prev at 0 and next at count-1 change nothing), and in
\* every state the prev control is enabled iff the selected index > 0 and
\* the next control iff the selected index < count-1.
C15_Original ==
    [][/\ (last'.op \in {"previous", "next"}) => NavMoves(last'.d)
       /\ \A d \in Slots : dlg'[d].open => NavControlsAgree(d)']_vars

\* What holds of C15 while one session is open (checked apart from the
\* claims).
C15_OneSession ==
    [][(Cardinality({s \in Slots : dlg[s].open}) <= 1
        /\ Cardinality({s \in Slots : dlg'[s].open}) <= 1) =>
          /\ (last'.op \in {"previous", "next"}) => NavMoves(last'.d)
          /\ \A d \in Slots : dlg'[d].open => NavControlsAgree(d)']_vars


\* The step leaves every region list but the one of slot d as it was, and
\* in that one every region but the selected one.
OnlyCurrentChanges(d) ==
    LET g == dlg[d].g
        img == dlg[d].img
        idx == dlg[d].current_region_index
    IN  /\ \A h \in Gens, i \in Images : <<h, i>> # <<g, img>> => breg'[h][i] = breg[h][i]
        /\ Len(breg'[g][img]) = Len(breg[g][img])
        /\ \A k \in 1..Len(breg[g][img]) : k # idx + 1 => breg'[g][img][k] = breg[g][img][k]

\* the selected region of slot d after the step
CurrentAfter(d) == breg'[dlg[d].g][dlg[d].img][dlg[d].current_region_index + 1]

\* The step changes of the selected region of slot d at most the status
\* and the label of the candidate at final_label_index.
OnlyFinalLabelAndStatus(d) ==
    LET r == Current(d)
        q == CurrentAfter(d)
    IN  /\ q = [r EXCEPT !.label_confidence = q.label_confidence,
                         !.modified_status = q.modified_status]
        /\ Len(q.label_confidence) = Len(r.label_confidence)
        /\ \A j \in 1..Len(r.label_confidence) :
               j # r.final_label_index + 1 => q.label_confidence[j] = r.label_confidence[j]

\* C16 as stated: change-class to c on the selected region rewrites only
\* label_confidence[final_label_index].label to c and sets the status to
\* Modified(1) iff it was not Added(2), whatever final_label_index is.
C16_Original ==
    [][\A d \in Slots, c \in CatalogIds :
          (ChangeClass(d, c) /\ HasCurrent(d)) =>
              /\ OnlyCurrentChanges(d)
              /\ OnlyFinalLabelAndStatus(d)
              /\ InRange(Current(d).final_label_index, Current(d).label_confidence) =>
                     CurrentAfter(d).label_confidence[Current(d).final_label_index + 1] = c
              /\ CurrentAfter(d).modified_status =
                     (IF Current(d).modified_status = 2 THEN 2 ELSE 1)]_vars

\* C16: change-class to c on the selected region, when final_label_index is
\* an index of label_confidence, rewrites only the label of that candidate
\* to c (other candidates, final_label_index, geometry and all other
\* regions unchanged) and sets the status to Modified(1) iff it was not
\* Added(2); when final_label_index is no index of label_confidence the
\* step changes no region and shows a warning.
C16_ClassChangeFrame ==
    [][\A d \in Slots, c \in CatalogIds :
          (ChangeClass(d, c) /\ HasCurrent(d)) =>
              /\ OnlyCurrentChanges(d)
              /\ IF InRange(Current(d).final_label_index, Current(d).label_confidence)
                 THEN /\ OnlyFinalLabelAndStatus(d)
                      /\ CurrentAfter(d).label_confidence[Current(d).final_label_index + 1] = c
                      /\ CurrentAfter(d).modified_status =
                             (IF Current(d).modified_status = 2 THEN 2 ELSE 1)
                 ELSE /\ CurrentAfter(d) = Current(d)
                      /\ "index_warning" \in last'.msgs]_vars

\* a class change has just rewritten the first of two candidates of a region
\* whose final_label_index is 0, and the region became Modified
C16_Witness ==
    /\ last.op = "class"
    /\ last.d \in Slots
    /\ dlg[last.d].open
    /\ InRange(dlg[last.d].current_region_index, ButtonRegions(dlg[last.d]))
    /\ LET r == ButtonRegions(dlg[last.d])[dlg[last.d].current_region_index + 1]
       IN  /\ r.final_label_index = 0
           /\ Len(r.label_confidence) = 2
           /\ r.label_confidence[1] = last.arg
           /\ r.label_confidence[2] # last.arg
           /\ r.modified_status = 1


\* the steps that select or unselect a region and refresh the edit controls
SelectionOps == {"open", "list_click", "click", "unselect", "previous", "next"}

\* C17: a direct status change by the user to v in {0,1,2} on the selected
\* region sets that region's modified_status to exactly v whatever it was
\* (Added included) and changes nothing else of any region; a step that
\* only selects or unselects, and so refreshes the status control by
\* program, writes no status.
C17_DirectStatusWins ==
    [][/\ \A d \in Slots, v \in 0..2 :
              (ChangeStatus(d, v) /\ HasCurrent(d)) =>
                  /\ OnlyCurrentChanges(d)
                  /\ CurrentAfter(d) = [Current(d) EXCEPT !.modified_status = v]
       /\ (last'.op \in SelectionOps) => breg' = breg]_vars

\* the user has just set the status of a region that was added in the
\* session (it carries the candidates of a new region) to Unmodified(0)
C17_Witness ==
    /\ last.op = "status"
    /\ last.d \in Slots
    /\ dlg[last.d].open
    /\ dlg[last.d].regions_modified
    /\ InRange(dlg[last.d].current_region_index, ButtonRegions(dlg[last.d]))
    /\ ButtonRegions(dlg[last.d])[dlg[last.d].current_region_index + 1].modified_status
           = last.arg
    /\ ButtonRegions(dlg[last.d])[dlg[last.d].current_region_index + 1].label_confidence
           = <<11, 1, 11, 11>>
    /\ last.arg = 0


\* C18: quick-confirm on the selected region i makes it Modified(1) unless
\* it is Added(2), which it stays, and changes nothing else of any region;
\* then the selection is i+1 when i < count-1, and stays i with the "all
\* confirmed" box shown when i = count-1.  With no selection quick-confirm
\* changes no region and nothing of the session.
C18_QuickConfirm ==
    [][\A d \in Slots :
          QuickConfirm(d) =>
              LET i == dlg[d].current_region_index
                  count == Len(ButtonRegions(dlg[d]))
              IN  /\ HasCurrent(d) =>
                        /\ OnlyCurrentChanges(d)
                        /\ CurrentAfter(d) =
                               [Current(d) EXCEPT !.modified_status = IF @ = 2 THEN 2 ELSE 1]
                        /\ dlg'[d].current_region_index =
                               (IF i < count - 1 THEN i + 1 ELSE i)
                        /\ dlg'[d].selected_region_index = dlg'[d].current_region_index
                        /\ ("all_confirmed" \in last'.msgs) <=> (i = count - 1)
                  /\ i = -1 =>
                        /\ breg' = breg
                        /\ dlg' = dlg
                        /\ timers' = timers
                        /\ last'.msgs = {}]_vars

\* quick-confirm has just made region 0 of two Modified and moved the
\* selection to region 1
C18_Witness ==
    /\ last.op = "confirm"
    /\ last.arg = 0
    /\ last.d \in Slots
    /\ dlg[last.d].open
    /\ dlg[last.d].current_region_index = 1
    /\ Len(ButtonRegions(dlg[last.d])) = 2
    /\ ButtonRegions(dlg[last.d])[1].modified_status = 1
    /\ dlg[last.d].regions_modified


\* What a drag of rectangle r in the session of slot d does apart from the
\* geometry of the region it may append: one region is appended to the
\* session's list iff the session is in add-defect mode and r is at least
\* 10x10; it is Added(2) with final_label_index 1, labels [11,1,11,11] and
\* yolo_confidence 0, it is selected, and the mode is off; otherwise no
\* region list and nothing of any session changes.
DragEffect(d, r) ==
    LET regs == ButtonRegions(dlg[d])
        after == breg'[dlg[d].g][dlg[d].img]
    IN  IF dlg[d].add_defect_mode /\ r.width >= 10 /\ r.height >= 10
        THEN /\ Len(after) = Len(regs) + 1
             /\ SubSeq(after, 1, Len(regs)) = regs
             /\ \A h \in Gens, i \in Images :
                    <<h, i>> # <<dlg[d].g, dlg[d].img>> => breg'[h][i] = breg[h][i]
             /\ after[Len(after)].modified_status = 2
             /\ after[Len(after)].final_label_index = 1
             /\ after[Len(after)].label_confidence = <<11, 1, 11, 11>>
             /\ after[Len(after)].yolo_confidence = 0
             /\ dlg'[d].current_region_index = Len(regs)
             /\ dlg'[d].selected_region_index = Len(regs)
             /\ dlg'[d].regions_modified
             /\ ~dlg'[d].add_defect_mode
        ELSE /\ breg' = breg
             /\ dlg' = dlg

\* the region a big enough drag in add-defect mode appended
Appended(d) == breg'[dlg[d].g][dlg[d].img][Len(ButtonRegions(dlg[d])) + 1]
Adds(d, r) == dlg[d].add_defect_mode /\ r.width >= 10 /\ r.height >= 10

\* C19 as stated: the appended region's x, y, width, height are exactly the
\* screen values divided by the zoom factor.
C19_Original ==
    [][\A d \in Slots, r \in Drags :
          DragRelease(d, r) =>
              /\ DragEffect(d, r)
              /\ Adds(d, r) =>
                     /\ Appended(d).x * dlg[d].zoom_factor = r.x * 1000
                     /\ Appended(d).y * dlg[d].zoom_factor = r.y * 1000
                     /\ Appended(d).width * dlg[d].zoom_factor = r.width * 1000
                     /\ Appended(d).height * dlg[d].zoom_factor = r.height * 1000]_vars

\* C19: a completed drag in add-defect mode appends a region iff its
\* rectangle is at least 10x10 screen pixels; then exactly one region is
\* appended at the end, with x, y, width, height the screen values divided
\* by the zoom factor and truncated to integers, modified_status 2,
\* final_label_index 1, labels [11,1,11,11], yolo_confidence 0; it becomes
\* the selection and add-defect mode is off.  A smaller drag, or a drag
\* outside add-defect mode, changes no regions, selection, dirty flag or
\* mode.
C19_DragAddsRegion ==
    [][\A d \in Slots, r \in Drags :
          DragRelease(d, r) =>
              /\ DragEffect(d, r)
              /\ Adds(d, r) =>
                     /\ Appended(d).x = (r.x * 1000) \div dlg[d].zoom_factor
                     /\ Appended(d).y = (r.y * 1000) \div dlg[d].zoom_factor
                     /\ Appended(d).width = (r.width * 1000) \div dlg[d].zoom_factor
                     /\ Appended(d).height = (r.height * 1000) \div dlg[d].zoom_factor]_vars

\* a 40x30 drag at zoom 1.2 has just appended a region of 33x25, which is
\* Added, selected, and the session left add-defect mode
C19_Witness ==
    /\ last.op = "add"
    /\ last.arg = 40
    /\ last.d \in Slots
    /\ dlg[last.d].open
    /\ ~dlg[last.d].add_defect_mode
    /\ LET regs == ButtonRegions(dlg[last.d])
       IN  /\ regs # <<>>
           /\ dlg[last.d].current_region_index = Len(regs) - 1
           /\ regs[Len(regs)].width = 33
           /\ regs[Len(regs)].height = 25
           /\ regs[Len(regs)].modified_status = 2


\* C20: in every state of the session the zoom factor lies in [0.1, 5.0],
\* whatever zoom buttons or keys, wheel notches, resets and focus-on-region
\* came before; a zoom-in (button, key or wheel) at 5.0 leaves it at 5.0
\* and a zoom-out at 0.1 leaves it at 0.1.
C20_ZoomBounded ==
    [][/\ MinZoom <= call.C.D.zoom_factor /\ call.C.D.zoom_factor <= MaxZoom
       /\ MinZoom <= call'.C.D.zoom_factor /\ call'.C.D.zoom_factor <= MaxZoom
       /\ (call.C.D.zoom_factor = MaxZoom /\ call'.op \in {"zoom_in", "wheel_up"}) =>
              call'.C.D.zoom_factor = MaxZoom
       /\ (call.C.D.zoom_factor = MinZoom /\ call'.op \in {"zoom_out", "wheel_down"}) =>
              call'.C.D.zoom_factor = MinZoom]_vars

\* a zoom-in found the zoom factor at 5.0 and left it there
C20_Witness ==
    /\ call.fn = "zoom"
    /\ call.op = "zoom_in"
    /\ call.before = MaxZoom
    /\ call.C.D.zoom_factor = MaxZoom
    /\ call.C.D.scale_factor = MaxZoom

\* a zoom-out found the zoom factor at 0.1 and left it there (checked apart
\* from the claims)
C20_AtMinimum ==
    /\ call.fn = "zoom"
    /\ call.op = "zoom_out"
    /\ call.before = MinZoom
    /\ call.C.D.zoom_factor = MinZoom


\* the handlers that multiply the zoom factor
ZoomOps == {"zoom_in", "zoom_out", "wheel_up", "wheel_down"}

\* the handler of the step left the session as it found it: zoom factor,
\* hit-test scale, displayed size, scroll offset, and no redraw
ZoomNoOp ==
    /\ call'.C.D = call.C.D
    /\ call'.scrolled = <<call.C.D.h_scroll, call.C.D.v_scroll>>
    /\ ~call'.C.drawn

\* C21: a zoom request (wheel, button or key) whose clamped result changes
\* the zoom factor by less than 0.001 is a no-op: zoom factor, hit-test
\* scale, displayed size and scroll offset are unchanged and the pixmap is
\* not drawn again.
C21_Original ==
    [][(call'.op \in ZoomOps /\ call'.C.D.zoom_factor = call.C.D.zoom_factor) =>
          ZoomNoOp]_vars

\* What holds of C21: the wheel is a no-op when the clamped zoom factor is
\* the old one (checked apart from the claims).
C21_WheelNoOp ==
    [][(call'.op \in {"wheel_up", "wheel_down"}
        /\ call'.C.D.zoom_factor = call.C.D.zoom_factor) => ZoomNoOp]_vars


\* On one axis: the image point that was under the anchor (viewport
\* position anchor2 / 2, label position anchor2 / 2 + scroll) when the
\* label was old wide is shown less than 1 unit from the anchor now that it
\* is new wide and scrolled by scroll_new.
AnchorKept(anchor2, scroll, old, new, scroll_new) ==
    LET moved == (anchor2 + 2 * scroll) * new - (2 * scroll_new + anchor2) * old
    IN  0 - 2 * old < moved /\ moved < 2 * old

\* On one axis: the scroll offset that keeps the anchor lies in the scroll
\* range 0 .. new - view.
AnchorReachable(anchor2, scroll, old, new, view) ==
    LET wanted == (anchor2 + 2 * scroll) * new - anchor2 * old
    IN  0 <= wanted /\ wanted <= 2 * old * Max2(0, new - view)

C23_Original ==
    (call.fn = "anchor" /\ call.op = "zoom_reset") =>
        IF NearOne(call.from.zoom_factor)
        THEN call.C.D = call.from
        ELSE /\ call.C.D.zoom_factor = 1000
             /\ call.C.D.scale_factor = 1000
             /\ AnchorReachable(ViewCentre2[1], call.from.h_scroll,
                                LabelW(call.from), LabelW(call.C.D), Env.view_w) =>
                    AnchorKept(ViewCentre2[1], call.from.h_scroll,
                               LabelW(call.from), LabelW(call.C.D), call.C.D.h_scroll)

\* What holds of C23: after a reset the zoom factor is within the tolerance
\* of 1.0, and a reset within the tolerance changes nothing (checked apart
\* from the claims).
C23_ResetNearOne ==
    (call.fn = "anchor" /\ call.op = "zoom_reset") =>
        /\ NearOne(call.C.D.zoom_factor)
        /\ NearOne(call.from.zoom_factor) => call.C.D = call.from


\* On one axis, in 2000ths of a screen unit: scroll offset h is less than
\* 3 units from (centre of the box at pos, extent long, drawn at scale)
\* less half the viewport, bounded to 0 .. size - view.
ScrollCentred(h, pos, extent, scale, view, size) ==
    LET wanted == (2 * pos + extent) * scale - 1000 * view
        bounded == Max2(0, Min2(2000 * Max2(0, size - view), wanted))
    IN  2000 * h - bounded < 6000 /\ bounded - 2000 * h < 6000

\* C24: a focus request on region i (a click on item i of the region list)
\* with i in range of the label's regions sets the zoom factor to 1.0 and
\* the label's selection to i and schedules one deferred step; with i out
\* of range it leaves zoom factor, selection and scroll offset alone and
\* schedules nothing.  The deferred step of a living session, with its
\* index in range, sets the scroll offset on each axis to the region's
\* centre less half the viewport size, bounded to [0, scroll maximum], and
\* changes nothing else; with its index out of range it changes nothing.
C24_FocusOnRegion ==
    [][/\ \A d \in Slots, i \in 0..MaxRegions :
              ListClick(d, i) =>
                  IF InRange(i, LabelRegions(dlg[d], ButtonRegions(dlg[d])))
                  THEN /\ dlg'[d].zoom_factor = 1000
                       /\ dlg'[d].scale_factor = 1000
                       /\ dlg'[d].selected_region_index = i
                       /\ timers' = Append(timers, Timer(d, i))
                  ELSE /\ dlg'[d].zoom_factor = dlg[d].zoom_factor
                       /\ dlg'[d].scale_factor = dlg[d].scale_factor
                       /\ dlg'[d].selected_region_index = dlg[d].selected_region_index
                       /\ dlg'[d].h_scroll = dlg[d].h_scroll
                       /\ dlg'[d].v_scroll = dlg[d].v_scroll
                       /\ timers' = timers
       /\ (TimerFire /\ timers # <<>> /\ Head(timers).d # 0) =>
              LET d == Head(timers).d
                  i == Head(timers).idx
                  regs == LabelRegions(dlg[d], ButtonRegions(dlg[d]))
              IN  /\ breg' = breg
                  /\ timers' = Tail(timers)
                  /\ IF InRange(i, regs)
                     THEN /\ dlg' = [dlg EXCEPT ![d].h_scroll = dlg'[d].h_scroll,
                                                ![d].v_scroll = dlg'[d].v_scroll]
                          /\ ScrollCentred(dlg'[d].h_scroll, regs[i + 1].x,
                                           regs[i + 1].width, dlg[d].scale_factor,
                                           Env.view_w, LabelW(dlg[d]))
                          /\ ScrollCentred(dlg'[d].v_scroll, regs[i + 1].y,
                                           regs[i + 1].height, dlg[d].scale_factor,
                                           Env.view_h, LabelH(dlg[d]))
                     ELSE dlg' = dlg]_vars

\* the deferred step of a focus request has just centred a region at a
\* zoom factor of 1.0: the scroll bars moved off the origin
C24_Witness ==
    /\ last.op = "timer"
    /\ last.d \in Slots
    /\ dlg[last.d].open
    /\ dlg[last.d].zoom_factor = 1000
    /\ dlg[last.d].selected_region_index = last.arg
    /\ dlg[last.d].h_scroll > 0
    /\ dlg[last.d].v_scroll > 0


\* C25: a delete request in a session whose current index selects no region
\* of the image is rejected with a warning, and a delete request whose
\* confirmation is declined is abandoned: the region sequences with every
\* field of every region, the session (its selection and its dirty flag
\* included), the pending deferred steps and the file are the same after it.
C25_DeleteRefused ==
    [][\A d \in Slots, confirm \in BOOLEAN :
          (/\ DeleteRegion(d, confirm)
           /\ \/ ~confirm
              \/ ~InRange(dlg[d].current_region_index, ButtonRegions(dlg[d])))
          => /\ breg' = breg
             /\ dlg' = dlg
             /\ timers' = timers
             /\ file' = file
             /\ linked' = linked
             /\ last'.op \in {"delete_rejected", "delete_declined"}
             /\ (last'.op = "delete_rejected") <=>
                    ~InRange(dlg[d].current_region_index, ButtonRegions(dlg[d]))
             /\ (last'.op = "delete_rejected") => "delete_warning" \in last'.msgs]_vars

\* the confirmation box of a delete request on a selected region has just
\* been answered No
C25_Witness ==
    /\ last.op = "delete_declined"
    /\ last.d \in Slots
    /\ InRange(dlg[last.d].current_region_index, ButtonRegions(dlg[last.d]))
    /\ "ask_delete" \in last.msgs

\* a delete request has just been rejected: the session's current index is
\* past the end of the image's regions, which another session emptied
C25_Rejected ==
    /\ last.op = "delete_rejected"
    /\ last.d \in Slots
    /\ dlg[last.d].current_region_index >= Len(ButtonRegions(dlg[last.d]))


\* ---------------------------------------------------------------------
\* The board: SilkLabelApp.process_board_data and BoardView.add_buttons.
\* A string is the sequence of its characters.

DigitChars == <<"0", "1", "2", "3", "4", "5", "6", "7", "8", "9">>
IsDigit(c) == \E v \in 0..9 : DigitChars[v + 1] = c
DigitValue(c) == CHOOSE v \in 0..9 : DigitChars[v + 1] = c

\* str(n) of an integer n
RECURSIVE str(_)
str(n) ==
    IF n < 0 THEN <<"-">> \o str(0 - n)
    ELSE IF n < 10 THEN <<DigitChars[n + 1]>>
    ELSE str(n \div 10) \o <<DigitChars[(n % 10) + 1]>>

\* the value of a string of decimal digits
RECURSIVE DecimalValue(_)
DecimalValue(text) ==
    IF text = <<>> THEN 0
    ELSE 10 * DecimalValue(SubSeq(text, 1, Len(text) - 1)) + DigitValue(text[Len(text)])

\* int(text): an optional sign and decimal digits, ValueError (ok = FALSE)
\* for any other text of the characters used here
int(text) ==
    LET signed == text # <<>> /\ text[1] \in {"-", "+"}
        digits == IF signed THEN Tail(text) ELSE text
    IN  IF digits # <<>> /\ \A k \in 1..Len(digits) : IsDigit(digits[k])
        THEN [ok |-> TRUE,
              value |-> IF signed /\ text[1] = "-"
                        THEN 0 - DecimalValue(digits) ELSE DecimalValue(digits)]
        ELSE [ok |-> FALSE, value |-> 0]

\* str.startswith
startswith(text, prefix) ==
    Len(text) >= Len(prefix) /\ SubSeq(text, 1, Len(prefix)) = prefix

\* str.split(sep) for a separator of one character
RECURSIVE split(_, _)
split(text, sep) ==
    IF \E k \in 1..Len(text) : text[k] = sep
    THEN LET k == CHOOSE i \in 1..Len(text) :
                      text[i] = sep /\ \A j \in 1..(i - 1) : text[j] # sep
         IN  <<SubSeq(text, 1, k - 1)>> \o split(SubSeq(text, k + 1, Len(text)), sep)
    ELSE <<text>>

\* the name f"p{camera}_{n}" the capture program gives a button
ButtonName(camera, n) == <<"p">> \o str(camera) \o <<"_">> \o str(n)

\* one entry of all_pic_info: its button name and its column
BoardEntry(name, column) == [connectButtonName |-> name, column |-> column]

\* the order of tuples of integers of one length
RECURSIVE TupleLess(_, _)
TupleLess(a, b) ==
    /\ a # <<>>
    /\ \/ Head(a) < Head(b)
       \/ Head(a) = Head(b) /\ TupleLess(Tail(a), Tail(b))

\* list.sort(key), a stable sort, key a function to tuples of integers: x
\* goes after the items whose key is not larger
RECURSIVE InsertSorted(_, _, _)
InsertSorted(sorted, x, key) ==
    IF sorted = <<>> THEN <<x>>
    ELSE IF TupleLess(key[x], key[Head(sorted)]) THEN <<x>> \o sorted
    ELSE <<Head(sorted)>> \o InsertSorted(Tail(sorted), x, key)

RECURSIVE SortedBy(_, _)
SortedBy(list, key) ==
    IF list = <<>> THEN <<>>
    ELSE InsertSorted(SortedBy(SubSeq(list, 1, Len(list) - 1), key),
                      list[Len(list)], key)

\* the items of a list
Items(list) == {list[k] : k \in 1..Len(list)}

\* the side process_board_data gives an entry, with 1..20 for the numbers
\* of the second camera's front side
partition_side_camera2_to_20(pic_info) ==
    LET button_name == pic_info.connectButtonName
        number == int(split(button_name, "_")[2])
    IN  IF startswith(button_name, <<"p", "1", "_">>)
        THEN IF number.ok /\ 1 <= number.value /\ number.value <= 25 THEN "front"
             ELSE IF number.ok /\ 26 <= number.value /\ number.value <= 50 THEN "back"
             ELSE "none"
        ELSE IF startswith(button_name, <<"p", "2", "_">>)
        THEN IF number.ok /\ 1 <= number.value /\ number.value <= 20 THEN "front"
             ELSE IF number.ok /\ 26 <= number.value /\ number.value <= 50 THEN "back"
             ELSE "none"
        ELSE "none"

\* the loop body of process_board_data: the list the entry is appended to
\* ("none": no list; ValueError and IndexError are passed over)
partition_side(pic_info) ==
    LET button_name == pic_info.connectButtonName
        number == int(split(button_name, "_")[2])
    IN  IF startswith(button_name, <<"p", "1", "_">>)
        THEN IF number.ok /\ 1 <= number.value /\ number.value <= 25 THEN "front"
             ELSE IF number.ok /\ 26 <= number.value /\ number.value <= 50 THEN "back"
             ELSE "none"
        ELSE IF startswith(button_name, <<"p", "2", "_">>)
        THEN IF number.ok /\ 1 <= number.value /\ number.value <= 25 THEN "front"
             ELSE IF number.ok /\ 26 <= number.value /\ number.value <= 50 THEN "back"
             ELSE "none"
        ELSE "none"

\* sort_key of process_board_data: (camera, number), (0, 0) on any error
sort_key(pic_info) ==
    LET parts == split(pic_info.connectButtonName, "_")
    IN  IF Len(parts) >= 2
        THEN LET camera == int(Tail(parts[1]))
                 number == int(parts[2])
             IN  IF parts[1] # <<>> /\ camera.ok /\ number.ok
                 THEN <<camera.value, number.value>>
                 ELSE <<0, 0>>
        ELSE <<0, 0>>

front_pics(all_pic_info) ==
    SortedBy(SelectSeq(all_pic_info, LAMBDA p : partition_side(p) = "front"),
             [p \in Items(all_pic_info) |-> sort_key(p)])
back_pics(all_pic_info) ==
    SortedBy(SelectSeq(all_pic_info, LAMBDA p : partition_side(p) = "back"),
             [p \in Items(all_pic_info) |-> sort_key(p)])


\* list.index(x): the 0-based position of the first item equal to x
index(list, x) ==
    CHOOSE k \in 0..(Len(list) - 1) :
        list[k + 1] = x /\ \A j \in 1..k : list[j] # x

\* extract_number of add_buttons: 0 on any error
extract_number(pic_info) ==
    LET parts == split(pic_info.connectButtonName, "_")
    IN  IF Len(parts) >= 2 /\ int(parts[2]).ok THEN int(parts[2]).value ELSE 0

\* pics_in_column of add_buttons, sorted
pics_in_column(pic_info_list, column, prefix) ==
    SortedBy(SelectSeq(pic_info_list,
                       LAMBDA p : p.column = column
                                  /\ startswith(p.connectButtonName, prefix)),
             [p \in Items(pic_info_list) |-> <<extract_number(p)>>])

\* a BoardView without buttons: self.buttons and the items of grid_layout
EmptyView == [buttons |-> <<>>, grid |-> <<>>]

\* BoardView.clear_buttons: every button and every item of the grid goes
clear_buttons(view) == [view EXCEPT !.buttons = <<>>, !.grid = <<>>]

\* the column labels of row 0; a label's pic_info holds its text, with
\* "#" for the character before the number
ColumnLabels ==
    [col \in 1..10 |->
        [widget |-> "label", pic_info |-> BoardEntry(<<"#", " ">> \o str(col), col),
         row |-> 0, col |-> col - 1]]

\* the row add_buttons computes for one entry; an entry of neither camera
\* leaves row unbound (process_board_data passes no such entry)
RowUnbound == -1

\* the row of add_buttons counting the entries of both cameras in the column
button_row_one_stream(pic_info_list, pic_info, is_front) ==
    LET button_name == pic_info.connectButtonName
        column == pic_info.column
        in_column == index(pics_in_column(pic_info_list, column, <<"p">>), pic_info)
    IN  IF ~startswith(button_name, <<"p", "1", "_">>)
           /\ ~startswith(button_name, <<"p", "2", "_">>)
        THEN RowUnbound
        ELSE IF is_front = (column \in {3, 4, 7, 8})
        THEN in_column + 1
        ELSE 5 - in_column

button_row(pic_info_list, pic_info, is_front) ==
    LET button_name == pic_info.connectButtonName
        column == pic_info.column
        InColumn(prefix) ==
            index(pics_in_column(pic_info_list, column, prefix), pic_info)
    IN  IF is_front
        THEN IF startswith(button_name, <<"p", "1", "_">>)
             THEN IF column \in {3, 4, 7, 8}
                  THEN InColumn(<<"p", "1", "_">>) + 1
                  ELSE 5 - InColumn(<<"p", "1", "_">>)
             ELSE IF startswith(button_name, <<"p", "2", "_">>)
             THEN IF column \in {3, 4, 7, 8}
                  THEN InColumn(<<"p", "2", "_">>) + 1
                  ELSE 5 - InColumn(<<"p", "2", "_">>)
             ELSE RowUnbound
        ELSE IF startswith(button_name, <<"p", "1", "_">>)
             THEN IF column \in {3, 4, 7, 8}
                  THEN 5 - InColumn(<<"p", "1", "_">>)
                  ELSE InColumn(<<"p", "1", "_">>) + 1
             ELSE IF startswith(button_name, <<"p", "2", "_">>)
             THEN IF column \in {3, 4, 7, 8}
                  THEN 5 - InColumn(<<"p", "2", "_">>)
                  ELSE InColumn(<<"p", "2", "_">>) + 1
             ELSE RowUnbound

\* add_buttons without its call of clear_buttons
add_buttons_no_clear(view, pic_info_list) ==
    IF pic_info_list = <<>>
    THEN view
    ELSE LET is_front == extract_number(pic_info_list[1]) <= 25
             placed == [k \in 1..Len(pic_info_list) |->
                           [widget |-> "button",
                            pic_info |-> pic_info_list[k],
                            row |-> button_row(pic_info_list, pic_info_list[k], is_front),
                            col |-> pic_info_list[k].column - 1]]
         IN  [buttons |-> view.buttons \o pic_info_list,
              grid |-> view.grid \o ColumnLabels \o placed]

\* BoardView.add_buttons: the view after it
add_buttons(view, pic_info_list) ==
    LET cleared == clear_buttons(view)
    IN  IF pic_info_list = <<>>
        THEN cleared
        ELSE LET is_front == extract_number(pic_info_list[1]) <= 25
                 placed == [k \in 1..Len(pic_info_list) |->
                               [widget |-> "button",
                                pic_info |-> pic_info_list[k],
                                row |-> button_row(pic_info_list, pic_info_list[k], is_front),
                                col |-> pic_info_list[k].column - 1]]
             IN  [buttons |-> cleared.buttons \o pic_info_list,
                  grid |-> cleared.grid \o ColumnLabels \o placed]


\* Bounds of the board study
MaxCamera == 3      \* camera numbers 0..MaxCamera in button names
MaxNumber == 52     \* sequence numbers 0..MaxNumber in button names
MaxPics == 3        \* length of the enumerated entry lists
MaxRuns == 2        \* runs of process_board_data on one document

\* names that are not p{camera}_{n}
OtherNames ==
    {<<>>, <<"p", "1">>, <<"p", "1", "_">>, <<"p", "1", "_", "x">>,
     <<"q", "1", "_", "5">>, <<"p", "1", "_", "-", "5">>,
     <<"p", "_", "5">>, <<"1", "_", "5">>, <<"i", "m", "g", "_", "1">>}

\* the sequences without repetition of 1..n items of S
DistinctLists(S, n) ==
    UNION {{list \in [1..m -> S] : \A i, j \in 1..m : i # j => list[i] # list[j]} :
           m \in 1..n}

\* names of both cameras and both sides, for the lists of one column
ColumnNames ==
    {ButtonName(1, 1), ButtonName(1, 2), ButtonName(2, 1), ButtonName(2, 3),
     ButtonName(1, 26), ButtonName(1, 27), ButtonName(2, 26)}

\* columns 1 and 3 with five sequential images each, from number first on
FiveAndFive(camera, first) ==
    [k \in 1..10 |-> BoardEntry(ButtonName(camera, first + k - 1),
                                IF k <= 5 THEN 1 ELSE 3)]

Reversed(list) == [k \in 1..Len(list) |-> list[Len(list) + 1 - k]]

\* the documents' all_pic_info lists of the study
PicLists ==
    {<<>>}
    \cup {<<BoardEntry(ButtonName(camera, n), 1)>> :
              camera \in 0..MaxCamera, n \in 0..MaxNumber}
    \cup {<<BoardEntry(name, 1)>> : name \in OtherNames}
    \cup UNION {DistinctLists({BoardEntry(name, column) : name \in ColumnNames}, MaxPics) :
                    column \in 1..10}
    \cup DistinctLists({BoardEntry(name, column) :
                            name \in {ButtonName(1, 1), ButtonName(1, 26), ButtonName(3, 1),
                                      <<"p", "1", "_", "x">>},
                            column \in {1, 3}}, 2)
    \cup {FiveAndFive(1, 1), Reversed(FiveAndFive(1, 1)),
          FiveAndFive(2, 16), FiveAndFive(1, 26), Reversed(FiveAndFive(2, 41)),
          FiveAndFive(1, 1) \o FiveAndFive(2, 1),
          FiveAndFive(1, 21)}

InitBoard ==
    /\ InitApp
    /\ \E all_pic_info \in PicLists :
           call = [fn |-> "board", all_pic_info |-> all_pic_info,
                   front_view |-> EmptyView, back_view |-> EmptyView, runs |-> 0]

\* SilkLabelApp.process_board_data on the document whose entries are
\* call.all_pic_info
ProcessBoardData ==
    /\ call.fn = "board"
    /\ call.runs < MaxRuns
    /\ call' = IF call.all_pic_info = <<>>
               THEN [call EXCEPT !.runs = @ + 1]
               ELSE [call EXCEPT
                        !.front_view = add_buttons(@, front_pics(call.all_pic_info)),
                        !.back_view = add_buttons(@, back_pics(call.all_pic_info)),
                        !.runs = @ + 1]
    /\ UNCHANGED <<file, path_set, json_gen, btn_gen, loads, breg, linked, dlg,
                   detail_dialog, timers, crashed, steps, last>>

NextBoard == ProcessBoardData
SpecBoard == InitBoard /\ [][NextBoard]_vars


\* the entry is named p{camera}_{n} for a camera 1 or 2 and an n of Numbers
NamedIn(pic_info, Numbers) ==
    \E camera \in {1, 2}, n \in Numbers :
        pic_info.connectButtonName = ButtonName(camera, n)

\* the document has been processed
Processed == call.fn = "board" /\ call.runs >= 1

C26_Camera2Boundary ==
    /\ Processed
    /\ call.all_pic_info = <<BoardEntry(ButtonName(2, 25), 1)>>
    /\ call.front_view.buttons = call.all_pic_info
    /\ call.back_view.buttons = <<>>


\* the camera and the sequence number a p{camera}_{n} name was written from
WrittenFrom(pic_info) ==
    CHOOSE cn \in (0..MaxCamera) \X (0..MaxNumber) :
        pic_info.connectButtonName = ButtonName(cn[1], cn[2])

\* the 0-based position of an entry among the entries of its own camera in
\* its column, by sequence number
PositionInColumn(collection, pic_info) ==
    Cardinality({q \in Items(collection) :
                    /\ q.column = pic_info.column
                    /\ WrittenFrom(q)[1] = WrittenFrom(pic_info)[1]
                    /\ WrittenFrom(q)[2] < WrittenFrom(pic_info)[2]})

\* every entry of the collection has one button in the view's grid, at
\* grid column = column - 1 and at row 5 - k in the columns of Upward,
\* row k + 1 in the other columns, k its position in its column
Serpentine(view, collection, Upward) ==
    /\ view.buttons = collection
    /\ \A pic_info \in Items(collection) :
           \E item \in Items(view.grid) :
               item.widget = "button" /\ item.pic_info = pic_info
    /\ \A item \in Items(view.grid) :
           item.widget = "button" =>
               LET k == PositionInColumn(collection, item.pic_info)
               IN  /\ item.pic_info \in Items(collection)
                   /\ item.col = item.pic_info.column - 1
                   /\ item.row = IF item.pic_info.column \in Upward THEN 5 - k ELSE k + 1

\* C27: on the front side an entry whose 0-based position among its own
\* camera's entries in its column, by sequence number, is k stands at grid
\* column = column - 1 and at row 5 - k in the columns 1, 2, 5, 6, 9, 10,
\* at row k + 1 in the columns 3, 4, 7, 8; on the back side the two sets of
\* columns are swapped.
C27_Serpentine ==
    (Processed /\ call.all_pic_info # <<>>) =>
        /\ Serpentine(call.front_view, front_pics(call.all_pic_info), {1, 2, 5, 6, 9, 10})
        /\ Serpentine(call.back_view, back_pics(call.all_pic_info), {3, 4, 7, 8})

\* the rows, in the order of the sequence numbers, of the buttons of one
\* camera in one column of a view
RowsOf(view, camera, column) ==
    LET mine == SelectSeq(view.buttons,
                          LAMBDA p : p.column = column /\ WrittenFrom(p)[1] = camera)
    IN  [k \in 1..Len(mine) |->
            (CHOOSE item \in Items(view.grid) :
                 item.widget = "button" /\ item.pic_info = mine[k]).row]

\* front side, columns 1 and 3 with five sequential images each, given in
\* the reverse order: column 1 has the rows 5, 4, 3, 2, 1 and column 3 the
\* rows 1, 2, 3, 4, 5
C27_Witness ==
    /\ Processed
    /\ call.all_pic_info = Reversed(FiveAndFive(1, 1))
    /\ RowsOf(call.front_view, 1, 1) = <<5, 4, 3, 2, 1>>
    /\ RowsOf(call.front_view, 1, 3) = <<1, 2, 3, 4, 5>>

\* back side, columns 1 and 3 with five sequential images each: column 1
\* has the rows 1, 2, 3, 4, 5 and column 3 the rows 5, 4, 3, 2, 1
C27_BackSide ==
    /\ Processed
    /\ call.all_pic_info = FiveAndFive(1, 26)
    /\ RowsOf(call.back_view, 1, 1) = <<1, 2, 3, 4, 5>>
    /\ RowsOf(call.back_view, 1, 3) = <<5, 4, 3, 2, 1>>


\* the grid of the view holds one button for each entry of the collection
\* and nothing else but the ten column labels (no label without entries)
OneButtonEach(view, collection) ==
    /\ \A pic_info \in Items(collection) :
           Cardinality({k \in 1..Len(view.grid) :
                           /\ view.grid[k].widget = "button"
                           /\ view.grid[k].pic_info = pic_info}) = 1
    /\ Len(view.buttons) = Len(collection)
    /\ Len(view.grid) = IF collection = <<>> THEN 0 ELSE 10 + Len(collection)

\* C28: running the assignor again on the same entries leaves each side's
\* grid with exactly the (row, column) assignment of the run before, and
\* after every run a grid holds one button for each entry of its side:
\* none is left over from the run before and none is there twice.
C28_Idempotent ==
    [][(ProcessBoardData /\ call.all_pic_info # <<>>) =>
          /\ call.runs >= 1 =>
                 /\ call'.front_view = call.front_view
                 /\ call'.back_view = call.back_view
          /\ OneButtonEach(call'.front_view, front_pics(call.all_pic_info))
          /\ OneButtonEach(call'.back_view, back_pics(call.all_pic_info))]_vars

\* the assignor has run twice on a document with entries on both sides
C28_Witness ==
    /\ call.fn = "board"
    /\ call.runs = 2
    /\ Len(call.front_view.buttons) >= 2
    /\ Len(call.back_view.buttons) >= 1
    /\ Len(call.front_view.grid) = 10 + Len(call.front_view.buttons)


\* ---------------------------------------------------------------------
\* The class catalog: ClassManager.load_classes.  A line is the sequence of
\* its characters; a class name of the code's two literal dicts is written
\* as one character.

\* str.strip(): leading and trailing blanks go
RECURSIVE strip(_)
strip(text) ==
    IF text # <<>> /\ Head(text) = " " THEN strip(Tail(text))
    ELSE IF text # <<>> /\ text[Len(text)] = " " THEN strip(SubSeq(text, 1, Len(text) - 1))
    ELSE text

\* str.strip('"'): leading and trailing double quotes go
RECURSIVE strip_quotes(_)
strip_quotes(text) ==
    IF text # <<>> /\ Head(text) = "\"" THEN strip_quotes(Tail(text))
    ELSE IF text # <<>> /\ text[Len(text)] = "\""
    THEN strip_quotes(SubSeq(text, 1, Len(text) - 1))
    ELSE text

\* line.split(',', 1) of a line with a comma: the text before the first
\* comma and the text after it
split_once(line) ==
    LET k == CHOOSE i \in 1..Len(line) :
                 line[i] = "," /\ \A j \in 1..(i - 1) : line[j] # ","
    IN  <<SubSeq(line, 1, k - 1), SubSeq(line, k + 1, Len(line))>>

\* d[k] = v on a dict
Put(d, k, v) == [x \in DOMAIN d \cup {k} |-> IF x = k THEN v ELSE d[x]]
EmptyDict == [x \in {} |-> <<>>]

\* the dict of the FileNotFoundError branch
DefaultClasses ==
    [class_id \in 0..11 |->
        CASE class_id = 0 -> <<"waste silk">>
          [] class_id = 1 -> <<"large slub">>
          [] class_id = 2 -> <<"adhering slub">>
          [] class_id = 3 -> <<"large long knot">>
          [] class_id = 4 -> <<"heavy corkscrew">>
          [] class_id = 5 -> <<"small slub">>
          [] class_id = 6 -> <<"long knot">>
          [] class_id = 7 -> <<"corkscrew">>
          [] class_id = 8 -> <<"loops and split ends">>
          [] class_id = 9 -> <<"very large slub">>
          [] class_id = 10 -> <<"cleanliness">>
          [] class_id = 11 -> <<"non-defect">>]

\* the dict of the branch for every other exception
FallbackClasses == [class_id \in {1, 11} |-> IF class_id = 1 THEN <<"defect">> ELSE <<"non-defect">>]

\* the loop over the lines: the dict and whether int() raised ValueError
RECURSIVE read_lines(_, _)
read_lines(lines, classes) ==
    IF lines = <<>> THEN [raised |-> FALSE, classes |-> classes]
    ELSE LET line == strip(Head(lines))
         IN  IF line # <<>> /\ \E k \in 1..Len(line) : line[k] = ","
             THEN LET parts == split_once(line)
                      class_id == int(strip(parts[1]))
                  IN  IF class_id.ok
                      THEN read_lines(Tail(lines),
                                      Put(classes, class_id.value, strip_quotes(parts[2])))
                      ELSE [raised |-> TRUE, classes |-> classes]
             ELSE read_lines(Tail(lines), classes)

\* load_classes keeping, when a line fails, the entries read before it
load_classes_keeps_partial(classes, f) ==
    IF ~f.exists THEN DefaultClasses
    ELSE LET read == read_lines(f.lines, classes)
         IN  IF read.raised
             THEN [x \in DOMAIN read.classes \cup {1, 11} |->
                      IF x \in DOMAIN read.classes THEN read.classes[x]
                      ELSE FallbackClasses[x]]
             ELSE read.classes

\* ClassManager.load_classes: self.classes after it, f the file at
\* classes_file_path
load_classes(classes, f) ==
    IF ~f.exists THEN DefaultClasses
    ELSE LET read == read_lines(f.lines, classes)
         IN  IF read.raised THEN FallbackClasses ELSE read.classes

\* Bound of the catalog study
MaxLines == 3       \* lines of classes.txt

\* the lines a classes.txt is written from
ClassLines ==
    {<<>>, <<" ">>,
     <<"3", ",", "\"", "a", "\"">>, <<" ", "3", " ", ",", "b", " ">>,
     <<"1", "0", ",", "c">>, <<"1", "1", ",", "\"", "d", "\"">>,
     <<"a", "b">>, <<"x", ",", "a">>, <<",", "a">>, <<"3", ".", "0", ",", "a">>}

ClassFiles ==
    {[exists |-> FALSE, lines |-> <<>>]}
    \cup {[exists |-> TRUE, lines |-> lines] :
              lines \in UNION {[1..n -> ClassLines] : n \in 0..MaxLines}}

InitClasses ==
    /\ InitApp
    /\ \E f \in ClassFiles :
           call = [fn |-> "classes", f |-> f, classes |-> EmptyDict, loaded |-> FALSE]

\* ClassManager.__init__: self.classes = {} and load_classes
LoadClasses ==
    /\ call.fn = "classes"
    /\ ~call.loaded
    /\ call' = [call EXCEPT !.classes = load_classes(EmptyDict, call.f),
                            !.loaded = TRUE]
    /\ UNCHANGED <<file, path_set, json_gen, btn_gen, loads, breg, linked, dlg,
                   detail_dialog, timers, crashed, steps, last>>

NextClasses == LoadClasses
SpecClasses == InitClasses /\ [][NextClasses]_vars


\* the line is one load_classes cannot parse: it holds a comma and the
\* text before its first comma is not an integer
FailsToParse(line) ==
    /\ \E k \in 1..Len(line) : line[k] = ","
    /\ \A n \in -1..99 : strip(split_once(strip(line))[1]) # str(n)

\* a line of blanks only
Blank(line) == \A k \in 1..Len(line) : line[k] = " "

BuiltIn(classes) ==
    /\ DOMAIN classes = 0..11
    /\ classes = DefaultClasses
    /\ classes[10] = <<"cleanliness">>
    /\ classes[11] = <<"non-defect">>

SomeLineFails == \E k \in 1..Len(call.f.lines) : FailsToParse(call.f.lines[k])

C29_Absent ==
    call.fn = "classes" /\ call.loaded /\ ~call.f.exists /\ BuiltIn(call.classes)

\* a file with a blank line between two class lines has been loaded
C29_BlankLine ==
    /\ call.fn = "classes" /\ call.loaded /\ call.f.exists
    /\ Len(call.f.lines) = 3
    /\ Blank(call.f.lines[2])
    /\ DOMAIN call.classes = {3, 10}


\* ---------------------------------------------------------------------
\* Image paths: SilkLabelApp.get_actual_image_path.  A path is the
\* sequence of its characters.

\* text.replace('\\', '/')
replace_backslash(text) == [k \in 1..Len(text) |-> IF text[k] = "\\" THEN "/" ELSE text[k]]

\* '/'.join(parts)
RECURSIVE join_slash(_)
join_slash(parts) ==
    IF parts = <<>> THEN <<>>
    ELSE IF Len(parts) = 1 THEN parts[1]
    ELSE parts[1] \o <<"/">> \o join_slash(Tail(parts))

\* the separators of os.path, on Windows (nt) and elsewhere
Seps(nt) == IF nt THEN {"\\", "/"} ELSE {"/"}

\* os.path.dirname: the text before the last separator, without the
\* separators at its end unless it is made of separators only; a drive
\* stays in front
RECURSIVE rstrip_seps(_, _)
rstrip_seps(text, nt) ==
    IF text # <<>> /\ text[Len(text)] \in Seps(nt)
    THEN rstrip_seps(SubSeq(text, 1, Len(text) - 1), nt)
    ELSE text

\* the drive of a path: "X:" on Windows, nothing elsewhere
splitdrive(path, nt) ==
    IF nt /\ Len(path) >= 2 /\ path[2] = ":"
    THEN <<SubSeq(path, 1, 2), SubSeq(path, 3, Len(path))>>
    ELSE <<<<>>, path>>

dirname(path, nt) ==
    LET drive == splitdrive(path, nt)[1]
        rest == splitdrive(path, nt)[2]
    IN  IF \E k \in 1..Len(rest) : rest[k] \in Seps(nt)
        THEN LET last_sep == CHOOSE i \in 1..Len(rest) :
                                 rest[i] \in Seps(nt)
                                 /\ \A j \in (i + 1)..Len(rest) : rest[j] \notin Seps(nt)
                 head == SubSeq(rest, 1, last_sep)
             IN  drive \o (IF rstrip_seps(head, nt) = <<>> THEN head
                           ELSE rstrip_seps(head, nt))
        ELSE drive

\* os.path.join(a, b) for a non-empty a and a relative b: the separator of
\* the platform goes between them unless a ends with one (on Windows a
\* bare drive "X:" takes none either)
os_path_join(a, b, nt) ==
    IF a[Len(a)] \in Seps(nt) \/ (nt /\ Len(a) = 2 /\ a[2] = ":")
    THEN a \o b
    ELSE a \o <<IF nt THEN "\\" ELSE "/">> \o b

Camera == <<"c", "a", "m", "e", "r", "a">>

\* get_actual_image_path rejoining from the last segment starting with 'camera'
get_actual_image_path_last(original_img_path, json_dir0, selected_file_path, nt) ==
    LET json_dir == IF json_dir0 = <<>> /\ selected_file_path # <<>>
                    THEN dirname(selected_file_path, nt) ELSE json_dir0
        path_parts == split(replace_backslash(original_img_path), "/")
        found == {i \in 1..Len(path_parts) : startswith(path_parts[i], Camera)}
    IN  IF original_img_path = <<>> \/ json_dir = <<>> \/ found = {}
        THEN original_img_path
        ELSE LET camera_index == CHOOSE i \in found : \A j \in found : j <= i
             IN  replace_backslash(
                     os_path_join(json_dir,
                                  join_slash(SubSeq(path_parts, camera_index, Len(path_parts))),
                                  nt))

\* SilkLabelApp.get_actual_image_path; json_dir0 and selected_file_path are
\* self.json_dir and self.selected_file_path, <<>> for None
get_actual_image_path(original_img_path, json_dir0, selected_file_path, nt) ==
    LET json_dir == IF json_dir0 = <<>> /\ selected_file_path # <<>>
                    THEN dirname(selected_file_path, nt) ELSE json_dir0
        path_parts == split(replace_backslash(original_img_path), "/")
        found == {i \in 1..Len(path_parts) : startswith(path_parts[i], Camera)}
    IN  IF original_img_path = <<>> \/ json_dir = <<>> \/ found = {}
        THEN original_img_path
        ELSE LET camera_index == CHOOSE i \in found : \A j \in found : i <= j
             IN  replace_backslash(
                     os_path_join(json_dir,
                                  join_slash(SubSeq(path_parts, camera_index, Len(path_parts))),
                                  nt))

\* Bound of the path study
MaxSegments == 3    \* segments of a stored image path

\* the segments stored paths are written from
PathSegments ==
    {<<>>, <<"E", ":">>, <<"i">>, Camera \o <<"2">>, Camera,
     <<"C">> \o Tail(Camera), <<"x">> \o Camera, <<"a", ".", "b">>}

\* segments written one after the other, seps[k] before segment k + 1
RECURSIVE Written(_, _)
Written(segments, seps) ==
    IF Len(segments) = 1 THEN segments[1]
    ELSE Written(SubSeq(segments, 1, Len(segments) - 1), seps)
             \o <<seps[Len(segments) - 1]>> \o segments[Len(segments)]

\* the files a document is opened from: the path QFileDialog returns
DocumentFiles(nt) ==
    IF nt
    THEN {<<"D", ":", "/", "d", ".", "j">>, <<"D", ":", "/", "w", "/", "d", ".", "j">>,
          <<"D", ":", "\\", "w", "\\", "d", ".", "j">>}
    ELSE {<<"/", "d", ".", "j">>, <<"/", "w", "/", "d", ".", "j">>,
          <<"/", "w", "/", "v", "/", "d", ".", "j">>}

InitPaths ==
    /\ InitApp
    /\ \E nt \in BOOLEAN, n \in 1..MaxSegments :
         \E segments \in [1..n -> PathSegments], seps \in [1..(n - 1) -> {"/", "\\"}] :
           \E selected_file_path \in DocumentFiles(nt) :
               call = [fn |-> "path", nt |-> nt, segments |-> segments,
                       img_path |-> Written(segments, seps),
                       selected_file_path |-> selected_file_path,
                       json_dir |-> dirname(selected_file_path, nt),
                       actual_img_path |-> <<>>, done |-> FALSE]

\* SilkLabelApp.on_button_clicked resolving the button's img_path
ResolvePath ==
    /\ call.fn = "path"
    /\ ~call.done
    /\ call' = [call EXCEPT
                   !.actual_img_path =
                       get_actual_image_path(call.img_path, call.json_dir,
                                             call.selected_file_path, call.nt),
                   !.done = TRUE]
    /\ UNCHANGED <<file, path_set, json_gen, btn_gen, loads, breg, linked, dlg,
                   detail_dialog, timers, crashed, steps, last>>

NextPaths == ResolvePath
SpecPaths == InitPaths /\ [][NextPaths]_vars


\* the segments of the stored path that start with 'camera'
CameraSegments ==
    {k \in 1..Len(call.segments) :
        /\ Len(call.segments[k]) >= 6
        /\ \A i \in 1..6 : call.segments[k][i] = Camera[i]}

\* the document directory written with forward slashes, without one at
\* its end
DocumentDirectory ==
    LET slashed == [k \in 1..Len(call.json_dir) |->
                       IF call.json_dir[k] = "\\" THEN "/" ELSE call.json_dir[k]]
    IN  IF slashed[Len(slashed)] = "/" THEN SubSeq(slashed, 1, Len(slashed) - 1) ELSE slashed

\* C30: a stored path with a segment that starts with 'camera' resolves to
\* the document directory, a slash, and the segments from the first such
\* segment (the camera folder) onward joined by slashes; a stored path
\* without such a segment resolves to itself.
C30_PathResolution ==
    (call.fn = "path" /\ call.done) =>
        IF CameraSegments # {}
        THEN LET first == CHOOSE k \in CameraSegments : \A j \in CameraSegments : k <= j
                 kept == SubSeq(call.segments, first, Len(call.segments))
             IN  call.actual_img_path =
                     DocumentDirectory \o <<"/">>
                         \o Written(kept, [k \in 1..(Len(kept) - 1) |-> "/"])
        ELSE call.actual_img_path = call.img_path

\* E:\camera2\a.b of a document in D:\w has been resolved to D:/w/camera2/a.b
C30_Witness ==
    /\ call.fn = "path" /\ call.done /\ call.nt
    /\ call.img_path = <<"E", ":", "\\">> \o Camera \o <<"2", "\\", "a", ".", "b">>
    /\ call.json_dir = <<"D", ":", "\\", "w">>
    /\ call.actual_img_path =
           <<"D", ":", "/", "w", "/">> \o Camera \o <<"2", "/", "a", ".", "b">>

\* a stored path without a camera folder has been resolved to itself
C30_NoCameraFolder ==
    /\ call.fn = "path" /\ call.done
    /\ call.img_path = <<"E", ":", "\\", "x">> \o Camera \o <<"/", "a", ".", "b">>
    /\ call.actual_img_path = call.img_path

(***************************************************************************)
(* Round trip of the document, and what a save persists.                   *)
(***************************************************************************)
\* the handlers that edit regions
EditOps == {"class", "status", "confirm", "delete", "add"}

\* the document in memory is the persisted one
Unedited == json_gen # 0 /\ file.ok /\ DocOf(json_gen) = file.doc

WriteFailed == last'.save = "failed" \/ last'.csave = "failed"

\* C31: a load leaves in memory the document of the file, regions and field
\* values; from then on every operation that is not an edit (open, select,
\* unselect, navigate, zoom, pan, toggle visibility, close, save, load,
\* clear, a deferred recentring) leaves the document in memory equal to the
\* persisted one and, unless a write fails, the persisted document as it was:
\* a save after any such sequence leaves the file with the regions and the
\* field values of the input.
C31_RoundTrip ==
    [][/\ last'.op = "load" => json_gen' # 0 /\ file'.ok /\ DocAfter = file'.doc
       /\ Unedited /\ last'.op \notin EditOps /\ ~WriteFailed =>
             /\ file' = file
             /\ json_gen' # 0 => DocAfter = file'.doc
             /\ \A g \in 1..loads : Live(g, json_gen', btn_gen', dlg', timers') =>
                    breg'[g] = breg[g]]_vars

\* C31 witness: load, open image 1, select, change the view and press save
\* in the clean session: the file holds the regions it was loaded with.
C31_Witness ==
    /\ last.op = "save_button"
    /\ last.save = "clean"
    /\ steps = MaxSteps
    /\ Unedited
    /\ file.doc[1].regs = <<RegionA, RegionB>>

(***************************************************************************)
(* The selected index and the region list.                                 *)
(***************************************************************************)
\* the selected index of the session in slot d is -1 or an index of the
\* list of its image
IndexValid(d) ==
    \/ dlg[d].current_region_index = -1
    \/ InRange(dlg[d].current_region_index, ButtonRegions(dlg[d]))

\* C32: in every reachable state the selected region index of every open
\* detail session is -1 or a valid index into the current region sequence
\* of its image.
C32_Original == \A d \in Slots : dlg[d].open => IndexValid(d)

\* What the stale index leads to: on_class_changed or on_modify_changed
\* raised IndexError on button.regions[current_region_index].
C32_HandlerRaises == crashed /\ last.op \in {"class", "status"}

\* What holds of C32 while one session is open (checked apart from the
\* claims): no step of a single session makes its index invalid.
C32_OneSession ==
    [][(/\ Cardinality({s \in Slots : dlg[s].open}) <= 1
        /\ Cardinality({s \in Slots : dlg'[s].open}) <= 1
        /\ \A d \in Slots : dlg[d].open => IndexValid(d)) =>
          \A d \in Slots : dlg'[d].open => IndexValid(d)']_vars

\* a save issued from a detail session has just completed successfully
SavedFrom(d) ==
    /\ last'.d = d
    /\ last'.save = "saved" \/ last'.csave = "saved"

\* The file holds, for the image of the session in slot d, the region
\* sequence the session works on.
PersistsSession(d) == file'.doc[dlg[d].img].regs = ButtonRegions(dlg[d])

\* C33: after a save issued from a detail session completes successfully,
\* the persisted region sequence of the session's image equals the
\* session's in-memory region sequence, also when the image entry had no
\* 'regions' field at load and when another document was loaded while the
\* session stayed open.
C33_Original ==
    [][\A d \in Slots : dlg[d].open /\ SavedFrom(d) => PersistsSession(d)]_vars

\* What holds of C33 (checked apart from the claims): the save persists the
\* session's regions when its image entry had the 'regions' key and the
\* document it was opened from is still the one in memory.
C33_LinkedCurrent ==
    [][\A d \in Slots :
          (/\ dlg[d].open /\ SavedFrom(d)
           /\ dlg[d].g = json_gen /\ linked[dlg[d].g][dlg[d].img]) =>
              PersistsSession(d)]_vars

\* a session on an image entry without 'regions' key has saved with success
\* and the file has no region of the one the session holds
C33_NoRegionsField ==
    /\ last.op = "close" /\ last.csave = "saved"
    /\ file.ok /\ ~file.doc[2].has
    /\ json_gen # 0 /\ Len(breg[json_gen][2]) = 1

\* a session left open across a load (its close prompt was answered with
\* Cancel) still works on the regions of the document loaded before
C33_AcrossLoad ==
    /\ last.op = "load" /\ last.ans = "Cancel"
    /\ \E d \in Slots : dlg[d].open /\ json_gen # 0 /\ dlg[d].g # json_gen

(***************************************************************************)
(* Closing with Discard.                                                   *)
(***************************************************************************)
\* the only open session, in slot d, on an image of the document in memory,
\* is closed with its edits discarded
DiscardClose(d) ==
    /\ last'.op = "close" /\ last'.d = d /\ last'.ans = "Discard"
    /\ \A s \in Slots : dlg[s].open <=> s = d
    /\ dlg[d].g = json_gen
    /\ file.ok

\* the regions in memory of every image of the document are the persisted
\* ones after the step: nothing else is there for a later save to write
NothingToWrite ==
    \A i \in Images : breg'[json_gen'][i] = file'.doc[i].regs

\* an image is opened right after a close with Discard left no session open
ReopenAfterDiscard ==
    /\ last.op = "close" /\ last.ans = "Discard"
    /\ \A s \in Slots : ~dlg[s].open
    /\ file.ok
    /\ last'.op = "open" /\ last'.d # 0

\* C34: edits discarded at the close of a detail session are not persisted
\* later: after a close answered with Discard the regions in memory, which
\* are what a later save from any session writes, are the persisted ones,
\* and a session opened then (its dirty flag clear) shows the regions as
\* last persisted.
C34_Original ==
    [][/\ \A d \in Slots : DiscardClose(d) => NothingToWrite
       /\ ReopenAfterDiscard =>
             /\ ~dlg'[last'.d].regions_modified
             /\ ButtonRegions(dlg'[last'.d]) = file.doc[dlg'[last'.d].img].regs]_vars

\* a session opened after a close with Discard shows a status the file
\* does not have
C34_ReopenShowsEdits ==
    /\ last.op = "open" /\ last.d # 0
    /\ steps = MaxSteps
    /\ \A s \in Slots : dlg[s].open <=> s = last.d
    /\ ~dlg[last.d].regions_modified
    /\ file.ok /\ file.doc[1].regs = <<RegionA, RegionB>>
    /\ dlg[last.d].img = 1
    /\ Len(ButtonRegions(dlg[last.d])) = 2
    /\ ButtonRegions(dlg[last.d])[1].modified_status = 1

(***************************************************************************)
(* The effective class after a class change.                               *)
(***************************************************************************)
\* C35 as stated: after the user changes the class of the selected region
\* to c, get_region_class_id gives c for the region, whatever its
\* final_label_index and label_confidence are.
C35_Original ==
    [][\A d \in Slots, c \in CatalogIds :
          (ChangeClass(d, c) /\ HasCurrent(d)) =>
              get_region_class_id(CurrentAfter(d)) = c]_vars

\* C35: after the user changes the class of the selected region to c, the
\* region's effective class id as get_region_class_id returns it is c when
\* final_label_index is a valid index of label_confidence; when it is out
\* of range or label_confidence is empty the change is refused with a
\* warning and the effective class id stays what it was.
C35_EffectiveClass ==
    [][\A d \in Slots, c \in CatalogIds :
          (ChangeClass(d, c) /\ HasCurrent(d)) =>
              IF InRange(Current(d).final_label_index, Current(d).label_confidence)
              THEN get_region_class_id(CurrentAfter(d)) = c
              ELSE /\ get_region_class_id(CurrentAfter(d)) = get_region_class_id(Current(d))
                   /\ "index_warning" \in last'.msgs]_vars

\* the effective class of the selected region, whose resolver had given 10,
\* is the non-defect class the user has just picked
C35_Witness ==
    /\ last.op = "class" /\ last.arg = NonDefectId
    /\ HasCurrent(last.d)
    /\ Current(last.d).label_confidence = <<NonDefectId, 1>>
    /\ get_region_class_id(Current(last.d)) = NonDefectId
    /\ dlg[last.d].class_combo = NonDefectId

\* the class change of a region whose final_label_index is out of range was
\* refused: the combo shows the class picked, the region resolves to the
\* class it had
C35_Refused ==
    /\ last.op = "class" /\ "index_warning" \in last.msgs
    /\ HasCurrent(last.d)
    /\ Current(last.d).final_label_index = 3
    /\ dlg[last.d].class_combo = last.arg
    /\ get_region_class_id(Current(last.d)) # last.arg

\* the same for a region that has no candidate at all
C35_RefusedEmpty ==
    /\ last.op = "class" /\ "index_warning" \in last.msgs
    /\ HasCurrent(last.d)
    /\ Current(last.d).label_confidence = <<>>
    /\ get_region_class_id(Current(last.d)) = NonDefectId
    /\ last.arg # NonDefectId

(***************************************************************************)
(* The cells of the board grid.                                            *)
(***************************************************************************)
\* the buttons of a view's grid
GridButtons(view) == {k \in 1..Len(view.grid) : view.grid[k].widget = "button"}

\* no two distinct entries among the buttons chosen by Same share a cell
NoSharedCell(view, Same(_, _)) ==
    \A j, k \in GridButtons(view) :
        (/\ view.grid[j].pic_info # view.grid[k].pic_info
         /\ Same(view.grid[j].pic_info, view.grid[k].pic_info)) =>
            <<view.grid[j].row, view.grid[j].col>> # <<view.grid[k].row, view.grid[k].col>>

\* C36: the layout assignor never places two distinct entries of one side
\* in the same (row, column) cell of the grid, whatever the input list,
\* also when both cameras have entries in the same column.
C36_Original ==
    Processed =>
        /\ NoSharedCell(call.front_view, LAMBDA p, q : TRUE)
        /\ NoSharedCell(call.back_view, LAMBDA p, q : TRUE)

\* What holds of C36 (checked apart from the claims): two distinct entries
\* of one side and one camera are never in the same cell.
C36_OneCamera ==
    LET SameCamera(p, q) ==
            \E prefix \in {<<"p", "1", "_">>, <<"p", "2", "_">>} :
                /\ startswith(p.connectButtonName, prefix)
                /\ startswith(q.connectButtonName, prefix)
    IN  Processed =>
            /\ NoSharedCell(call.front_view, SameCamera)
            /\ NoSharedCell(call.back_view, SameCamera)

\* p1_1 and p2_1, both of column 1, are both at row 5 of column 0 of the
\* front view
C36_SharedCell ==
    /\ Processed
    /\ call.all_pic_info = <<BoardEntry(ButtonName(1, 1), 1), BoardEntry(ButtonName(2, 1), 1)>>
    /\ \A k \in GridButtons(call.front_view) :
           call.front_view.grid[k].row = 5 /\ call.front_view.grid[k].col = 0
    /\ Cardinality(GridButtons(call.front_view)) = 2

(***************************************************************************)
(* The "all confirmed" box of quick-confirm.                               *)
(***************************************************************************)
\* quick-confirm of the session in slot d has just shown "all confirmed"
SignalsAllConfirmed(d) ==
    /\ last'.op = "confirm" /\ last'.d = d
    /\ "all_confirmed" \in last'.msgs

\* C37: whenever quick-confirm signals "all confirmed", every region of the
\* open image has a modified_status other than Unmodified(0).
C37_Original ==
    [][\A d \in Slots :
          (dlg[d].open /\ SignalsAllConfirmed(d)) =>
              \A k \in 1..Len(breg'[dlg[d].g][dlg[d].img]) :
                  breg'[dlg[d].g][dlg[d].img][k].modified_status # 0]_vars

\* What holds of C37 (checked apart from the claims): the box is shown
\* exactly when the region confirmed is the last of the list, and that
\* region is not Unmodified afterwards.
C37_LastRegion ==
    [][\A d \in Slots :
          (dlg[d].open /\ last'.op = "confirm" /\ last'.d = d /\ HasCurrent(d)) =>
              /\ ("all_confirmed" \in last'.msgs) <=>
                     (dlg[d].current_region_index = Len(ButtonRegions(dlg[d])) - 1)
              /\ CurrentAfter(d).modified_status # 0]_vars

\* quick-confirm of the second of two regions has shown "all confirmed" and
\* the first region is Unmodified
C37_FirstUnconfirmed ==
    /\ last.op = "confirm" /\ "all_confirmed" \in last.msgs
    /\ HasCurrent(last.d)
    /\ dlg[last.d].current_region_index = 1
    /\ ButtonRegions(dlg[last.d])[1].modified_status = 0
    /\ ButtonRegions(dlg[last.d])[2].modified_status = 1

(***************************************************************************)
(* The deferred recentring step and the life of its session.               *)
(***************************************************************************)
\* the oldest pending step has just fired
StepFires == timers # <<>> /\ last'.op = "timer"

\* the step that fires belongs to a session that has closed
OfClosedSession == Head(timers).d = 0

\* the step that fires belongs to the open session in slot d and its
\* captured index is no index of the session's regions any more
StaleIndex(d) ==
    /\ Head(timers).d = d
    /\ ~InRange(Head(timers).idx, LabelRegions(dlg[d], ButtonRegions(dlg[d])))

ScrollKept(d) ==
    /\ dlg'[d].h_scroll = dlg[d].h_scroll
    /\ dlg'[d].v_scroll = dlg[d].v_scroll

\* C38: a deferred recentring step has no effect once the detail session
\* that scheduled it has closed, and a step whose captured region index is
\* no longer valid when it fires changes no scroll offset.
C38_Original ==
    [][StepFires =>
          /\ OfClosedSession =>
                ~crashed' /\ dlg' = dlg /\ breg' = breg /\ file' = file
          /\ \A d \in Slots : StaleIndex(d) => ScrollKept(d)]_vars

\* What holds of C38 (checked apart from the claims): the step of an open
\* session whose captured index is no longer valid changes nothing of any
\* session.
C38_StaleIndexIgnored ==
    [][StepFires => \A d \in Slots : StaleIndex(d) => dlg' = dlg /\ ~crashed']_vars

\* the step of a closed session has fired and the exception it raised on
\* the deleted window has ended the process
C38_ClosedSessionStep == crashed /\ last.op = "timer" /\ last.d = 0

\* the step scheduled for region 0 has fired in an open session whose only
\* region was deleted in between
C38_DeletedInBetween ==
    /\ last.op = "timer" /\ last.d \in Slots /\ last.arg = 0
    /\ dlg[last.d].open
    /\ ButtonRegions(dlg[last.d]) = <<>>
    /\ ~crashed

(***************************************************************************)
(* View-only operations.                                                   *)
(***************************************************************************)
\* wheel / button / keyboard zoom, reset, pan, toggling the visibility of
\* the regions, selecting (canvas or list, with its focus-on-region and the
\* deferred recentring step), unselecting, prev / next
ViewOps == {"zoom_in", "zoom_out", "zoom_reset", "wheel", "pan", "toggle_regions",
            "click", "list_click", "unselect", "previous", "next", "timer"}

\* C39: a view-only operation (wheel, button or keyboard zoom, reset, pan,
\* toggling region visibility, selecting, unselecting, prev / next
\* navigation, focus-on-region) leaves every region sequence and every
\* field of every region as it was, and the dirty flag of every session.
C39_ViewOnly ==
    [][last'.op \in ViewOps =>
          /\ RegionsKept
          /\ \A d \in Slots : dlg'[d].regions_modified = dlg[d].regions_modified
          /\ \A d \in Slots : dlg'[d].open = dlg[d].open]_vars

\* C39 witness: the regions of a session with an unsaved status change have
\* just been hidden; the change and the dirty flag are still there.
C39_Witness ==
    /\ last.op = "toggle_regions"
    /\ dlg[last.d].open
    /\ ~dlg[last.d].regions_visible
    /\ dlg[last.d].regions_modified
    /\ ButtonRegions(dlg[last.d]) = <<[RegionA EXCEPT !.modified_status = 1], RegionB>>

\* a pan has just moved both scroll bars of a clean session that shows the
\* regions of the file
C39_Panned ==
    /\ last.op = "pan"
    /\ dlg[last.d].open
    /\ dlg[last.d].h_scroll = 60 /\ dlg[last.d].v_scroll = 20
    /\ ~dlg[last.d].regions_modified
    /\ ButtonRegions(dlg[last.d]) = <<RegionA, RegionB>>

====
